---------------------------- MODULE Spec2Model ----------------------------
(***************************************************************************)
(* A model of the agent lifecycle, metrics and reporting core of           *)
(* plumise-petals:                                                         *)
(*   - ChainAgent              (chain/agent.py):    register / heartbeat   *)
(*   - MetricsCollector        (server/metrics.py): lock-guarded counters  *)
(*   - OracleReporter          (chain/reporter.py): start / stop / loop,   *)
(*                                                  and _send_report       *)
(*   - RewardTracker           (chain/rewards.py):  queries and claims     *)
(*   - InferenceProofGenerator (chain/proof.py):    generate_proof         *)
(*   - PlumiseAuth             (chain/auth.py):     ledger reads, signing  *)
(*   - PlumiseServer           (server/plumise_server.py):                 *)
(*                               record_inference and the proof buffer,    *)
(*                               start, the background loops, shutdown     *)
(* Each component has its own specification (SpecAgent, SpecMetrics,       *)
(* SpecReporter, SpecSend, SpecRewards, SpecProof, SpecAuth, SpecServer,   *)
(* SpecLifecycle); SpecRegistrar runs register() from two threads,         *)
(* SpecReporterConcurrent interleaves start() and stop(), SpecPipeline     *)
(* runs record_inference against the reporter's snapshot, drain and send.  *)
(* A specification leaves the other components' variables unchanged.       *)
(***************************************************************************)
EXTENDS Integers, Sequences, FiniteSets, TLC

VARIABLES
    \* ---- ChainAgent (chain/agent.py) and the ledger it talks to ----
    registered,              \* self._registered
    registration_attempted,  \* self._registration_attempted
    txCount,                 \* ledger: eth.get_transaction_count(address)
    pending,                 \* ledger: nonces of submitted, not yet mined txs
    lastCall,                \* observation of the most recent agent call
    regSends,                \* send_raw_transaction calls made by register()
    regReturns,              \* return values of the register() calls, in order
    hbCalls,                 \* number of heartbeat() calls made
    hbLog,                   \* heartbeat txs handed to send_raw_transaction
    hbClean,                 \* no heartbeat() call has hit an exception so far
    agentCalls,              \* number of agent calls made (bounded)
    txLog,                   \* every transaction the process submitted: operation and nonce, in order
    \* ---- MetricsCollector (server/metrics.py) and its caller threads ----
    heap,                    \* the InferenceMetrics objects, by reference
    lock,                    \* self._lock: 0 when free, else the holder
    pc,                      \* where each thread is in its current call
    arg,                     \* the (tokens, latency_ms) of a thread's record
    loc,                     \* each thread's local values
    done,                    \* record_inference calls each thread completed
    since,                   \* totals of the records completed since the last reset
    wasReset,                \* a reset() call has completed
    held,                    \* the snapshot most recently handed to a caller
    resetDrift,              \* what the reset() calls returned, added up, less what had been recorded by then
    \* ---- OracleReporter (chain/reporter.py) on its event loop ----
    rep_running,             \* self._running
    rep_task,                \* self._task: 0 for None, else a task
    consecutive_failures,    \* self._consecutive_failures
    tasks,                   \* the report-loop tasks created so far
    callerPc,                \* where each caller of start()/stop() is
    awaiting,                \* the task a caller inside stop() awaits
    lastOp,                  \* the most recent start()/stop() call
    failedSince,             \* failed cycles since the most recent success
    cycles,                  \* report cycles run (bounded)
    attempts,                \* report attempts begun
    wakes,                   \* sleeps that ended with _running set
    \* ---- OracleReporter._send_report (chain/reporter.py) and the oracle's reply ----
    sendCalls,               \* the _send_report calls made: the exchange and what came back
    \* ---- RewardTracker (chain/rewards.py) and the RewardPool contract ----
    pool,                    \* self._pool is not None: the reward contract address is configured
    claim_threshold_wei,     \* config.claim_threshold_wei
    rewardCalls,             \* the RewardTracker calls made: inputs, ledger steps, result
    tracker,                 \* the RewardTracker has been constructed
    \* ---- InferenceProofGenerator (chain/proof.py) ----
    model_hash,              \* self.model_hash
    agent_address,           \* self.agent_address
    proofCalls,              \* the generate_proof calls made: arguments and the ProofData returned
    \* ---- PlumiseAuth (chain/auth.py), the Identity ----
    auth,                    \* the PlumiseAuth has been constructed
    registry,                \* self._registry is not None: agent_registry_address is configured
    authCalls,               \* the Identity calls made: what the ledger did and what came back
    posted,                  \* the latest POST of _send_report: base URL, snapshot, url, body
    \* ---- PlumiseServer.record_inference and the collector's proof buffer ----
    server,                  \* [built, verify_on_chain]: the server object and its config flag
    col_requests,            \* the collector's total_requests as record_inference leaves it
    proof_buf,               \* the collector's pending proofs, oldest first
    buf_lock,                \* holder of the collector's lock, 0 when free
    wk,                      \* per handler thread: position in record_inference, its locals
    dr,                      \* the draining thread: position in drain_proofs, its copy
    drained,                 \* the proofs drain_proofs has returned, in order of return
    lastDrain,               \* what the latest drain_proofs returned, and the buffer it left
    pushed,                  \* every proof record_proof appended, in order of appending
    \* ---- PlumiseServer.start, its background tasks and its shutdown ----
    mainPc,                  \* where the coroutine of start() (or a lone send_final_report) stands
    srv_running,             \* PlumiseServer._running
    shutdown_event,          \* [value, wake]: the asyncio.Event and the wake-up of its waiter
    petals,                  \* the thread of the inference server: none, running, failed
    reporter_running,        \* OracleReporter._running of the server's reporter
    report_loop,             \* [st, cancel, raised, endedBy]: the task of _report_loop
    heartbeat_task,          \* the task of _heartbeat_loop, as report_loop
    reward_task,             \* the task of _reward_check_loop, as report_loop
    executor,                \* what the worker thread of run_in_executor is running
    pending_proofs,          \* number of proofs in the collector's buffer
    final,                   \* the send_final_report call: POSTs made, proofs carried, how it ended
    ledgerCalls,             \* the blocking ledger calls made, each with the thread it ran on
    lateTx,                  \* a transaction was submitted after start() had returned
    \* ---- ChainAgent.register() called from several threads ----
    reg_attempted,           \* self._registration_attempted
    reg_registered,          \* self._registered
    reg_thread,              \* per thread: position in register(), nonce read, calls made, last return
    reg_mined,               \* registration transactions mined (the ledger's transaction count)
    reg_pool,                \* nonces of the transactions the node holds unmined
    reg_accepted,            \* registration transactions the node accepted
    \* ---- record_inference on handler threads against the reporter's snapshot, drain and send ----
    counted,                 \* the collector's counters: [tokens, requests]
    buffered,                \* the collector's pending proofs, oldest first; a proof is named by the request it belongs to
    handling,                \* per handler thread: the request counted and not yet buffered, 0 when idle
    taken,                   \* the snapshot the reporter holds before its drain: [who, tokens, requests]
    reports,                 \* the reports handed to _send_report, in order: snapshot values, proofs, result
    final_sent,              \* send_final_report has been called
    recorded,                \* what the record_inference calls so far add up to: [tokens, requests]
    generated                \* the requests whose proof was buffered

agentVars == <<registered, registration_attempted, txCount, pending, lastCall,
               regSends, regReturns, hbCalls, hbLog, hbClean, agentCalls,
               txLog>>

metricsVars == <<heap, lock, pc, arg, loc, done, since, wasReset, held,
                 resetDrift>>

reporterVars == <<rep_running, rep_task, consecutive_failures, tasks, callerPc,
                  awaiting, lastOp, failedSince, cycles, attempts, wakes>>

sendVars == <<sendCalls>>

rewardsVars == <<pool, claim_threshold_wei, rewardCalls, tracker>>

proofVars == <<model_hash, agent_address, proofCalls>>

authVars == <<auth, registry, authCalls, posted>>

serverVars == <<server, col_requests, proof_buf, buf_lock, wk, dr, drained, lastDrain, pushed>>

lifecycleVars == <<mainPc, srv_running, shutdown_event, petals, reporter_running, report_loop, heartbeat_task, reward_task, executor, pending_proofs, final, ledgerCalls, lateTx>>

registrarVars == <<reg_attempted, reg_registered, reg_thread, reg_mined, reg_pool, reg_accepted>>

pipelineVars == <<counted, buffered, handling, taken, reports, final_sent, recorded, generated>>

vars == <<agentVars, metricsVars, reporterVars, sendVars, rewardsVars, proofVars, authVars, serverVars, lifecycleVars, registrarVars, pipelineVars>>

\* what the actions of one component leave alone
notAgent == <<metricsVars, reporterVars, sendVars, rewardsVars, proofVars, authVars, serverVars, lifecycleVars, registrarVars, pipelineVars>>
notMetrics == <<agentVars, reporterVars, sendVars, rewardsVars, proofVars, authVars, serverVars, lifecycleVars, registrarVars, pipelineVars>>
notReporter == <<agentVars, metricsVars, sendVars, rewardsVars, proofVars, authVars, serverVars, lifecycleVars, registrarVars, pipelineVars>>
notRewards == <<agentVars, metricsVars, reporterVars, sendVars, proofVars, authVars, serverVars, lifecycleVars, registrarVars, pipelineVars>>
notSend == <<agentVars, metricsVars, reporterVars, rewardsVars, proofVars, authVars, serverVars, lifecycleVars, registrarVars, pipelineVars>>
notAuth == <<agentVars, metricsVars, reporterVars, sendVars, rewardsVars, proofVars, serverVars, lifecycleVars, registrarVars, pipelineVars>>
notProof == <<agentVars, metricsVars, reporterVars, sendVars, rewardsVars, authVars, serverVars, lifecycleVars, registrarVars, pipelineVars>>
notLifecycle == <<agentVars, metricsVars, reporterVars, sendVars, rewardsVars, proofVars, authVars, serverVars, registrarVars, pipelineVars>>
notServer == <<agentVars, metricsVars, reporterVars, sendVars, rewardsVars, proofVars, authVars, lifecycleVars, registrarVars, pipelineVars>>
notPipeline == <<agentVars, metricsVars, reporterVars, sendVars, rewardsVars, proofVars, authVars, serverVars, lifecycleVars, registrarVars>>
notRegistrar == <<agentVars, metricsVars, reporterVars, sendVars, rewardsVars, proofVars, authVars, serverVars, lifecycleVars, pipelineVars>>

-----------------------------------------------------------------------------
(* Bounds of the model *)

\* total number of register()/heartbeat() calls explored
MaxCalls == 4

\* threads calling into the MetricsCollector
NumThreads == 2

\* record_inference calls per thread
RecordsPerThread == 2

\* report-loop tasks created by start()
MaxStarts == 3

\* report cycles run by the loops together
MaxCycles == 12

\* _send_report calls explored in a row
MaxSends == 2

\* RewardTracker calls explored in a row
MaxRewardCalls == 2

\* largest pending reward (and epoch) the contract reports
MaxReward == 4

\* generate_proof calls explored in a row
MaxProofs == 3

\* PlumiseAuth calls explored in a row
MaxAuthCalls == 2

\* calls of PlumiseServer.record_inference, over all handler threads
MaxRecords == 3

\* calls of drain_proofs
MaxDrains == 2

\* proofs the buffer holds at most between two drains
MaxBuffered == 2

MaxRegisterCalls == 3

MaxInferences == 2

MaxReports == 2

-----------------------------------------------------------------------------
(***************************************************************************)
(* ChainAgent                                                              *)
(***************************************************************************)

\* A capability is modelled by its length in bytes; the lists tried.
CapLength == 32

CapLists == { <<>>, <<32>>, <<32, 32>>, <<16>>, <<32, 33>>, <<0, 32>> }

\* agent.py:89-91: the loop raises ValueError at the first element whose
\* length is not 32.
BadCaps(caps) == \E i \in 1..Len(caps) : caps[i] # CapLength

\* How far the body of the try block gets (agent.py:94-132, 146-180):
\*   nonce_err  get_transaction_count raises
\*   gas_err    gas_price raises
\*   sign_err   sign_transaction raises
\*   send_err   send_raw_transaction raises
\*   wait_err   wait_for_transaction_receipt raises (30 s timeout included)
\*   status0    receipt["status"] == 0
\*   status1    receipt["status"] == 1
Outcomes == {"nonce_err", "gas_err", "sign_err", "send_err", "wait_err",
             "status0", "status1"}

\* The ledger / signing steps a call performed before it ended.
StepsOf(out) ==
    CASE out = "nonce_err" -> {"nonce"}
      [] out = "gas_err"   -> {"nonce", "gas"}
      [] out = "sign_err"  -> {"nonce", "gas", "sign"}
      [] out = "send_err"  -> {"nonce", "gas", "sign", "send"}
      [] OTHER             -> {"nonce", "gas", "sign", "send", "wait"}

\* send_raw_transaction was called
Sent(out) == "send" \in StepsOf(out)

\* The ledger after a transaction attempt that signed nonce n:
\* a receipt means the tx was mined (the account's count advances and any
\* pending tx of that nonce is gone); a receipt timeout leaves it pending.
LedgerCount(out, n) ==
    IF out \in {"status0", "status1"} /\ n = txCount THEN txCount + 1 ELSE txCount

LedgerPending(out, n) ==
    CASE out \in {"status0", "status1"} -> pending \ {n}
      [] out = "wait_err"               -> pending \cup {n}
      [] OTHER                          -> pending

\* agent.py:117-119, 169-171: the receipt a call obtained, if it obtained one
ReceiptOf(out) == IF out \in {"status0", "status1"} THEN out ELSE "none"

\* agent.py:119-132: which paths of the try block set _registered
\* (_AnyReceipt: any receipt taken as success)
RegisteredAfter_AnyReceipt(out) == out \in {"status0", "status1"}

RegisteredAfter(out) == out = "status1"

\* agent.py:122,126,131: every path through the try block records the attempt
\* (_OnlyOnSuccess: the attempt recorded on the success path alone)
AttemptedAfter_OnlyOnSuccess(out) == out = "status1"

AttemptedAfter(out) == TRUE

\* agent.py:96,105: the nonce register() signs is the count it has just read
RegisterNonce(read) == read

\* agent.py:148,157: the nonce heartbeat() signs is the count it has just read
\* (_Cached: the nonce of the first heartbeat reused)
HeartbeatNonce_Cached(read) == IF hbLog = <<>> THEN read ELSE hbLog[1].nonce

HeartbeatNonce(read) == read

\* send_raw_transaction returned a hash: the node took the transaction
Accepted(out) == out \in {"wait_err", "status0", "status1", "sent"}

\* the log of submitted transactions after a call that ended as out
Submitted(log, op, nonce, out) ==
    IF Accepted(out) THEN Append(log, [op |-> op, nonce |-> nonce]) ELSE log

\* rewards.py:125-140: how far claim_reward gets on the agent's account;
\* it returns once send_raw_transaction has, without waiting for a receipt
ClaimSubmits == {"nonce_err", "sign_err", "send_err", "sent"}

\* rewards.py:126,130: the nonce claim_reward signs is the count it has read
ClaimNonce(read) == read

\* a register() call before the one being recorded raised
AfterRaise == lastCall.raised \/ lastCall.afterRaise

\* agent.py:89-91: the ValueError is raised before the try block, so no
\* except clause records an attempt
\* (_Recorded: the attempt recorded before the error leaves register())
AfterValidationError_Recorded(attempted) == TRUE

AfterValidationError(attempted) == attempted

\* ChainAgent.register(name, model_hash, capabilities)
Register(caps, out) ==
    /\ agentCalls < MaxCalls
    /\ agentCalls' = agentCalls + 1
    /\ IF registration_attempted
       THEN \* agent.py:73-75: cached result, before any validation
            /\ lastCall' = [op |-> "register", badCaps |-> BadCaps(caps),
                            raised |-> FALSE, ret |-> registered, steps |-> {},
                            receipt |-> "none",
                            afterRaise |-> AfterRaise]
            /\ regReturns' = Append(regReturns, registered)
            /\ UNCHANGED <<registered, registration_attempted, txCount,
                           pending, regSends, txLog>>
       ELSE IF BadCaps(caps)
       THEN \* agent.py:89-91: ValueError, raised outside the try block
            /\ lastCall' = [op |-> "register", badCaps |-> TRUE,
                            raised |-> TRUE, ret |-> FALSE, steps |-> {},
                            receipt |-> "none",
                            afterRaise |-> AfterRaise]
            /\ registration_attempted' =
                  AfterValidationError(registration_attempted)
            /\ UNCHANGED <<registered, txCount, pending, regSends,
                           regReturns, txLog>>
       ELSE \* agent.py:94-132
            LET nonce == RegisterNonce(txCount) IN
            /\ registered' = (registered \/ RegisteredAfter(out))
            /\ registration_attempted' = AttemptedAfter(out)
            /\ regSends' = regSends + (IF Sent(out) THEN 1 ELSE 0)
            /\ txCount' = LedgerCount(out, nonce)
            /\ pending' = LedgerPending(out, nonce)
            /\ lastCall' = [op |-> "register", badCaps |-> FALSE,
                            raised |-> FALSE, ret |-> RegisteredAfter(out),
                            steps |-> StepsOf(out),
                            receipt |-> ReceiptOf(out),
                            afterRaise |-> AfterRaise]
            /\ regReturns' = Append(regReturns, RegisteredAfter(out))
            /\ txLog' = Submitted(txLog, "register", nonce, out)
    /\ UNCHANGED <<hbCalls, hbLog, hbClean>>
    /\ UNCHANGED notAgent

\* ChainAgent.heartbeat()
Heartbeat(out) ==
    /\ agentCalls < MaxCalls
    /\ agentCalls' = agentCalls + 1
    /\ LET read  == txCount
           nonce == HeartbeatNonce(read) IN
       /\ hbLog' = IF Sent(out)
                   THEN Append(hbLog, [nonce |-> nonce, read |-> read])
                   ELSE hbLog
       /\ txCount' = LedgerCount(out, nonce)
       /\ pending' = LedgerPending(out, nonce)
       /\ txLog' = Submitted(txLog, "heartbeat", nonce, out)
    /\ hbCalls' = hbCalls + 1
    /\ hbClean' = (hbClean /\ out \in {"status0", "status1"})
    /\ lastCall' = [op |-> "heartbeat", badCaps |-> FALSE, raised |-> FALSE,
                    ret |-> (out = "status1"), steps |-> StepsOf(out),
                    receipt |-> ReceiptOf(out),
                            afterRaise |-> AfterRaise]
    /\ UNCHANGED <<registered, registration_attempted, regSends, regReturns>>
    /\ UNCHANGED notAgent

\* RewardTracker.claim_reward() of the same process: the same account, the
\* same node (plumise_server.py:346, rewards.py:125-140)
RewardClaim(out) ==
    /\ agentCalls < MaxCalls
    /\ agentCalls' = agentCalls + 1
    /\ LET nonce == ClaimNonce(txCount) IN
       /\ txLog' = Submitted(txLog, "claim", nonce, out)
       /\ pending' = IF out = "sent" THEN pending \cup {nonce} ELSE pending
    /\ UNCHANGED <<registered, registration_attempted, txCount, lastCall,
                   regSends, regReturns, hbCalls, hbLog, hbClean>>
    /\ UNCHANGED notAgent

\* The ledger mines a pending transaction whose nonce is the account's next.
LedgerMine ==
    /\ txCount \in pending
    /\ txCount' = txCount + 1
    /\ pending' = pending \ {txCount}
    /\ UNCHANGED <<registered, registration_attempted, lastCall, regSends,
                   regReturns, hbCalls, hbLog, hbClean, agentCalls, txLog>>
    /\ UNCHANGED notAgent

\* ChainAgent.__init__ and a fresh account
AgentInit ==
    /\ registered = FALSE
    /\ registration_attempted = FALSE
    /\ txCount = 0
    /\ pending = {}
    /\ lastCall = [op |-> "none", badCaps |-> FALSE, raised |-> FALSE,
                   ret |-> FALSE, steps |-> {}, receipt |-> "none",
                   afterRaise |-> FALSE]
    /\ regSends = 0
    /\ regReturns = <<>>
    /\ hbCalls = 0
    /\ hbLog = <<>>
    /\ hbClean = TRUE
    /\ agentCalls = 0
    /\ txLog = <<>>

AgentNext ==
    \/ \E caps \in CapLists, out \in Outcomes : Register(caps, out)
    \/ \E out \in Outcomes : Heartbeat(out)
    \/ \E out \in ClaimSubmits : RewardClaim(out)
    \/ LedgerMine

-----------------------------------------------------------------------------
(***************************************************************************)
(* MetricsCollector                                                        *)
(*                                                                         *)
(* InferenceMetrics objects live in a heap and are named by reference, so  *)
(* that handing out the live object instead of a copy is expressible.      *)
(* Every statement executed under "with self._lock" is a step of its own:  *)
(* "x += v" is a load followed by a store.  Latencies are whole numbers    *)
(* of milliseconds.  A caller keeps the snapshot it was handed until the   *)
(* next one is handed out; objects nobody refers to are collected.         *)
(***************************************************************************)

Threads == 1..NumThreads

\* metrics.py:71: self._metrics, the first object built
MetricsRef == 1

\* metrics.py:71: time.time() at construction
StartTime == 7

\* references an object can get
Refs == 1..(NumThreads + 2)

\* the (tokens, latency_ms) arguments tried
RecordArgs == { [tokens |-> 1, latency_ms |-> 1],
                [tokens |-> 3, latency_ms |-> 5] }

\* metrics.py:16-29: the dataclass InferenceMetrics
InferenceMetrics(tok, req, lat, st) ==
    [total_tokens_processed |-> tok, total_requests |-> req,
     total_latency_ms |-> lat, start_time |-> st]

Totals(tok, req, lat) ==
    [total_tokens_processed |-> tok, total_requests |-> req,
     total_latency_ms |-> lat]

TotalsOf(m) ==
    Totals(m.total_tokens_processed, m.total_requests, m.total_latency_ms)

NoLocals == [reg |-> 0, tok |-> 0, req |-> 0, lat |-> 0, ref |-> 0]

NoArgs == [tokens |-> 0, latency_ms |-> 0]

NoSnapshot == [ref |-> 0, by |-> "none", val |-> InferenceMetrics(0, 0, 0, 0),
               expect |-> Totals(0, 0, 0), resetBefore |-> FALSE,
               recordsBefore |-> 0]

Live == heap[MetricsRef]

\* the number of record_inference calls that have returned
RECURSIVE SumDone(_)
SumDone(n) == IF n = 0 THEN 0 ELSE done[n] + SumDone(n - 1)

Completed == SumDone(NumThreads)

\* a reference not in use
NewRef == CHOOSE r \in Refs \ DOMAIN heap : \A q \in Refs \ DOMAIN heap : r <= q

\* the heap without the objects nobody refers to
Collect(h, keep) == [r \in (DOMAIN h) \cap keep |-> h[r]]

InUse(t, ref) ==
    {MetricsRef, ref} \cup {loc[u].ref : u \in Threads \ {t}}

\* threading.Lock.acquire: blocks while another thread holds the lock
\* (_NoLock: the methods run without the lock)
CanAcquire_NoLock(t) == TRUE

CanAcquire(t) == lock = 0

\* metrics.py:93-98: the reference get_snapshot() returns is the object it
\* has just built
\* (_Live: the collector's own object handed out)
SnapshotRef_Live(new) == MetricsRef

SnapshotRef(new) == new

\* metrics.py:112-114: what reset() stores into the three counters
\* (_KeepLatency: total_latency_ms left as it was)
ResetValue_KeepLatency(field) ==
    IF field = "total_latency_ms" THEN Live.total_latency_ms ELSE 0

ResetValue(field) == 0

Goto(t, label) == pc' = [pc EXCEPT ![t] = label]

\* ---- record_inference(tokens, latency_ms): metrics.py:74-84 ----

\* metrics.py:81: with self._lock
RecBegin(t, a) ==
    /\ pc[t] = "idle" /\ done[t] < RecordsPerThread
    /\ CanAcquire(t)
    /\ lock' = t
    /\ arg' = [arg EXCEPT ![t] = a]
    /\ Goto(t, "rc_ld_tok")
    /\ UNCHANGED <<heap, loc, done, since, wasReset, held>>
    /\ UNCHANGED resetDrift
    /\ UNCHANGED notMetrics

\* metrics.py:82: self._metrics.total_tokens_processed += tokens
RecLoadTokens(t) ==
    /\ pc[t] = "rc_ld_tok"
    /\ loc' = [loc EXCEPT ![t].reg = Live.total_tokens_processed]
    /\ Goto(t, "rc_st_tok")
    /\ UNCHANGED <<heap, lock, arg, done, since, wasReset, held>>
    /\ UNCHANGED resetDrift
    /\ UNCHANGED notMetrics

RecStoreTokens(t) ==
    /\ pc[t] = "rc_st_tok"
    /\ heap' = [heap EXCEPT ![MetricsRef].total_tokens_processed =
                                loc[t].reg + arg[t].tokens]
    /\ Goto(t, "rc_ld_req")
    /\ UNCHANGED <<lock, arg, loc, done, since, wasReset, held>>
    /\ UNCHANGED resetDrift
    /\ UNCHANGED notMetrics

\* metrics.py:83: self._metrics.total_requests += 1
RecLoadRequests(t) ==
    /\ pc[t] = "rc_ld_req"
    /\ loc' = [loc EXCEPT ![t].reg = Live.total_requests]
    /\ Goto(t, "rc_st_req")
    /\ UNCHANGED <<heap, lock, arg, done, since, wasReset, held>>
    /\ UNCHANGED resetDrift
    /\ UNCHANGED notMetrics

RecStoreRequests(t) ==
    /\ pc[t] = "rc_st_req"
    /\ heap' = [heap EXCEPT ![MetricsRef].total_requests = loc[t].reg + 1]
    /\ Goto(t, "rc_ld_lat")
    /\ UNCHANGED <<lock, arg, loc, done, since, wasReset, held>>
    /\ UNCHANGED resetDrift
    /\ UNCHANGED notMetrics

\* metrics.py:84: self._metrics.total_latency_ms += latency_ms
RecLoadLatency(t) ==
    /\ pc[t] = "rc_ld_lat"
    /\ loc' = [loc EXCEPT ![t].reg = Live.total_latency_ms]
    /\ Goto(t, "rc_st_lat")
    /\ UNCHANGED <<heap, lock, arg, done, since, wasReset, held>>
    /\ UNCHANGED resetDrift
    /\ UNCHANGED notMetrics

RecStoreLatency(t) ==
    /\ pc[t] = "rc_st_lat"
    /\ heap' = [heap EXCEPT ![MetricsRef].total_latency_ms =
                                loc[t].reg + arg[t].latency_ms]
    /\ Goto(t, "rc_end")
    /\ UNCHANGED <<lock, arg, loc, done, since, wasReset, held>>
    /\ UNCHANGED resetDrift
    /\ UNCHANGED notMetrics

\* the with block ends: the lock is released and the call returns
RecEnd(t) ==
    /\ pc[t] = "rc_end"
    /\ lock' = 0
    /\ done' = [done EXCEPT ![t] = @ + 1]
    /\ since' = Totals(since.total_tokens_processed + arg[t].tokens,
                       since.total_requests + 1,
                       since.total_latency_ms + arg[t].latency_ms)
    /\ loc' = [loc EXCEPT ![t] = NoLocals]
    /\ arg' = [arg EXCEPT ![t] = NoArgs]
    /\ Goto(t, "idle")
    /\ UNCHANGED <<heap, wasReset, held>>
    /\ UNCHANGED resetDrift
    /\ UNCHANGED notMetrics

\* ---- get_snapshot(): metrics.py:86-98 ----

\* metrics.py:92: with self._lock
SnapBegin(t) ==
    /\ pc[t] = "idle"
    /\ CanAcquire(t)
    /\ lock' = t
    /\ Goto(t, "gs_tok")
    /\ UNCHANGED <<heap, arg, loc, done, since, wasReset, held>>
    /\ UNCHANGED resetDrift
    /\ UNCHANGED notMetrics

\* metrics.py:94-96: the constructor's arguments are read one by one
SnapReadTokens(t) ==
    /\ pc[t] = "gs_tok"
    /\ loc' = [loc EXCEPT ![t].tok = Live.total_tokens_processed]
    /\ Goto(t, "gs_req")
    /\ UNCHANGED <<heap, lock, arg, done, since, wasReset, held>>
    /\ UNCHANGED resetDrift
    /\ UNCHANGED notMetrics

SnapReadRequests(t) ==
    /\ pc[t] = "gs_req"
    /\ loc' = [loc EXCEPT ![t].req = Live.total_requests]
    /\ Goto(t, "gs_lat")
    /\ UNCHANGED <<heap, lock, arg, done, since, wasReset, held>>
    /\ UNCHANGED resetDrift
    /\ UNCHANGED notMetrics

SnapReadLatency(t) ==
    /\ pc[t] = "gs_lat"
    /\ loc' = [loc EXCEPT ![t].lat = Live.total_latency_ms]
    /\ Goto(t, "gs_new")
    /\ UNCHANGED <<heap, lock, arg, done, since, wasReset, held>>
    /\ UNCHANGED resetDrift
    /\ UNCHANGED notMetrics

\* metrics.py:93-98: start_time is read and the new object is built
SnapBuild(t) ==
    /\ pc[t] = "gs_new"
    /\ heap' = [r \in DOMAIN heap \cup {NewRef} |->
                  IF r = NewRef
                  THEN InferenceMetrics(loc[t].tok, loc[t].req, loc[t].lat,
                                        Live.start_time)
                  ELSE heap[r]]
    /\ loc' = [loc EXCEPT ![t].ref = SnapshotRef(NewRef)]
    /\ Goto(t, "gs_end")
    /\ UNCHANGED <<lock, arg, done, since, wasReset, held>>
    /\ UNCHANGED resetDrift
    /\ UNCHANGED notMetrics

\* the with block ends and the snapshot is handed to the caller
SnapEnd(t) ==
    /\ pc[t] = "gs_end"
    /\ lock' = 0
    /\ held' = [ref |-> loc[t].ref, by |-> "get_snapshot",
                val |-> heap[loc[t].ref], expect |-> since,
                resetBefore |-> wasReset, recordsBefore |-> Completed]
    /\ heap' = Collect(heap, InUse(t, loc[t].ref))
    /\ loc' = [loc EXCEPT ![t] = NoLocals]
    /\ Goto(t, "idle")
    /\ UNCHANGED <<arg, done, since, wasReset>>
    /\ UNCHANGED resetDrift
    /\ UNCHANGED notMetrics

\* ---- reset(): metrics.py:100-115 ----

\* metrics.py:105: with self._lock
ResetBegin(t) ==
    /\ pc[t] = "idle"
    /\ CanAcquire(t)
    /\ lock' = t
    /\ Goto(t, "rs_tok")
    /\ UNCHANGED <<heap, arg, loc, done, since, wasReset, held>>
    /\ UNCHANGED resetDrift
    /\ UNCHANGED notMetrics

\* metrics.py:106-111: snapshot = InferenceMetrics(...)
ResetReadTokens(t) ==
    /\ pc[t] = "rs_tok"
    /\ loc' = [loc EXCEPT ![t].tok = Live.total_tokens_processed]
    /\ Goto(t, "rs_req")
    /\ UNCHANGED <<heap, lock, arg, done, since, wasReset, held>>
    /\ UNCHANGED resetDrift
    /\ UNCHANGED notMetrics

ResetReadRequests(t) ==
    /\ pc[t] = "rs_req"
    /\ loc' = [loc EXCEPT ![t].req = Live.total_requests]
    /\ Goto(t, "rs_lat")
    /\ UNCHANGED <<heap, lock, arg, done, since, wasReset, held>>
    /\ UNCHANGED resetDrift
    /\ UNCHANGED notMetrics

ResetReadLatency(t) ==
    /\ pc[t] = "rs_lat"
    /\ loc' = [loc EXCEPT ![t].lat = Live.total_latency_ms]
    /\ Goto(t, "rs_new")
    /\ UNCHANGED <<heap, lock, arg, done, since, wasReset, held>>
    /\ UNCHANGED resetDrift
    /\ UNCHANGED notMetrics

ResetBuild(t) ==
    /\ pc[t] = "rs_new"
    /\ heap' = [r \in DOMAIN heap \cup {NewRef} |->
                  IF r = NewRef
                  THEN InferenceMetrics(loc[t].tok, loc[t].req, loc[t].lat,
                                        Live.start_time)
                  ELSE heap[r]]
    /\ loc' = [loc EXCEPT ![t].ref = NewRef]
    /\ Goto(t, "rs_z_tok")
    /\ UNCHANGED <<lock, arg, done, since, wasReset, held>>
    /\ UNCHANGED resetDrift
    /\ UNCHANGED notMetrics

\* metrics.py:112: self._metrics.total_tokens_processed = 0
ResetZeroTokens(t) ==
    /\ pc[t] = "rs_z_tok"
    /\ heap' = [heap EXCEPT ![MetricsRef].total_tokens_processed =
                                ResetValue("total_tokens_processed")]
    /\ Goto(t, "rs_z_req")
    /\ UNCHANGED <<lock, arg, loc, done, since, wasReset, held>>
    /\ UNCHANGED resetDrift
    /\ UNCHANGED notMetrics

\* metrics.py:113: self._metrics.total_requests = 0
ResetZeroRequests(t) ==
    /\ pc[t] = "rs_z_req"
    /\ heap' = [heap EXCEPT ![MetricsRef].total_requests =
                                ResetValue("total_requests")]
    /\ Goto(t, "rs_z_lat")
    /\ UNCHANGED <<lock, arg, loc, done, since, wasReset, held>>
    /\ UNCHANGED resetDrift
    /\ UNCHANGED notMetrics

\* metrics.py:114: self._metrics.total_latency_ms = 0.0
ResetZeroLatency(t) ==
    /\ pc[t] = "rs_z_lat"
    /\ heap' = [heap EXCEPT ![MetricsRef].total_latency_ms =
                                ResetValue("total_latency_ms")]
    /\ Goto(t, "rs_end")
    /\ UNCHANGED <<lock, arg, loc, done, since, wasReset, held>>
    /\ UNCHANGED resetDrift
    /\ UNCHANGED notMetrics

\* metrics.py:115: return snapshot; the with block ends
ResetEnd(t) ==
    /\ pc[t] = "rs_end"
    /\ lock' = 0
    /\ held' = [ref |-> loc[t].ref, by |-> "reset", val |-> heap[loc[t].ref],
                expect |-> since, resetBefore |-> wasReset,
                recordsBefore |-> Completed]
    /\ heap' = Collect(heap, InUse(t, loc[t].ref))
    /\ since' = Totals(0, 0, 0)
    /\ wasReset' = TRUE
    /\ loc' = [loc EXCEPT ![t] = NoLocals]
    /\ Goto(t, "idle")
    /\ UNCHANGED <<arg, done>>
    /\ resetDrift' = Totals(resetDrift.total_tokens_processed
                                + heap[loc[t].ref].total_tokens_processed
                                - since.total_tokens_processed,
                            resetDrift.total_requests
                                + heap[loc[t].ref].total_requests
                                - since.total_requests,
                            resetDrift.total_latency_ms
                                + heap[loc[t].ref].total_latency_ms
                                - since.total_latency_ms)
    /\ UNCHANGED notMetrics

\* MetricsCollector.__init__: metrics.py:70-72
MetricsInit ==
    /\ heap = [r \in {MetricsRef} |-> InferenceMetrics(0, 0, 0, StartTime)]
    /\ lock = 0
    /\ pc = [t \in Threads |-> "idle"]
    /\ arg = [t \in Threads |-> NoArgs]
    /\ loc = [t \in Threads |-> NoLocals]
    /\ done = [t \in Threads |-> 0]
    /\ since = Totals(0, 0, 0)
    /\ wasReset = FALSE
    /\ held = NoSnapshot
    /\ resetDrift = Totals(0, 0, 0)

MetricsStep(t) ==
    \/ \E a \in RecordArgs : RecBegin(t, a)
    \/ RecLoadTokens(t) \/ RecStoreTokens(t)
    \/ RecLoadRequests(t) \/ RecStoreRequests(t)
    \/ RecLoadLatency(t) \/ RecStoreLatency(t)
    \/ RecEnd(t)
    \/ SnapBegin(t) \/ SnapReadTokens(t) \/ SnapReadRequests(t)
    \/ SnapReadLatency(t) \/ SnapBuild(t) \/ SnapEnd(t)
    \/ ResetBegin(t) \/ ResetReadTokens(t) \/ ResetReadRequests(t)
    \/ ResetReadLatency(t) \/ ResetBuild(t)
    \/ ResetZeroTokens(t) \/ ResetZeroRequests(t) \/ ResetZeroLatency(t)
    \/ ResetEnd(t)

MetricsNext == \E t \in Threads : MetricsStep(t)

-----------------------------------------------------------------------------
(***************************************************************************)
(* OracleReporter                                                          *)
(*                                                                         *)
(* The reporter runs on one asyncio event loop: a coroutine runs until it  *)
(* awaits.  start() has no await and is one step; stop() is two, split at  *)
(* "await self._task"; the report loop is split at its two awaits, the     *)
(* sleep and the POST inside _send_report.  Task.cancel() marks the task;  *)
(* the CancelledError is delivered at the await the task is suspended in   *)
(* (or before its first step) and ends it (reporter.py:107-108).           *)
(***************************************************************************)

\* reporter.py:47: self._max_failures
MaxFailures == 10

\* coroutines that call start() and stop(); SeqCallers is the one caller
\* that awaits each call before making the next
Callers == {1, 2}

SeqCallers == {1}

TaskIds == 1..Len(tasks)

Alive(k) == tasks[k].st # "done"

\* what one report cycle can come to (reporter.py:93-111):
\*   success  _send_report returned True
\*   failure  _send_report returned False
\*   raise    an exception other than CancelledError reached the loop
CycleResults == {"success", "failure", "raise"}

\* reporter.py:61: the guard of start()
\* (_Never: start() without the guard)
AlreadyRunning_Never == FALSE

AlreadyRunning == rep_running

\* reporter.py:75: "await self._task" returns once the task has finished
\* (_NoAwait: stop() going on without waiting for the task)
StopMayResume_NoAwait(k) == TRUE

StopMayResume(k) == ~Alive(k)

\* reporter.py:97-111: the consecutive-failure counter after a cycle
\* (_ExceptionUncounted: the except branch leaving the counter alone)
FailuresAfter_ExceptionUncounted(res, n) ==
    CASE res = "success" -> 0
      [] res = "failure" -> n + 1
      [] OTHER           -> n

FailuresAfter(res, n) == IF res = "success" THEN 0 ELSE n + 1

\* reporter.py:101-106: at the ceiling the loop logs an error and goes on
\* (_GiveUp: the loop ending at the ceiling)
CeilingKeepsLooping_GiveUp(n) == n < MaxFailures

CeilingKeepsLooping(n) == TRUE

\* reporter.py:87: "while self._running", evaluated after a cycle that left
\* the counter at n
AfterCycle(n) ==
    IF rep_running /\ CeilingKeepsLooping(n)
    THEN [st |-> "sleep", cancel |-> FALSE, endedBy |-> "none"]
    ELSE [st |-> "done", cancel |-> FALSE,
          endedBy |-> IF rep_running THEN "ceiling" ELSE "not_running"]

\* ---- start(metrics_collector): reporter.py:59-67 ----
Start(c) ==
    /\ callerPc[c] = "idle"
    /\ IF AlreadyRunning
       THEN /\ UNCHANGED <<rep_running, rep_task, tasks>>
       ELSE /\ Len(tasks) < MaxStarts
            /\ rep_running' = TRUE
            /\ tasks' = Append(tasks, [st |-> "new", cancel |-> FALSE,
                                       endedBy |-> "none"])
            /\ rep_task' = Len(tasks) + 1
    /\ lastOp' = [op |-> "start", wasRunning |-> rep_running,
                  taskBefore |-> rep_task, tasksBefore |-> Len(tasks),
                  attempts |-> attempts]
    /\ UNCHANGED <<consecutive_failures, callerPc, awaiting, failedSince,
                   cycles, attempts, wakes>>
    /\ UNCHANGED notReporter

\* ---- stop(): reporter.py:69-79 ----

\* reporter.py:71-75: up to "await self._task"; without a task stop() returns
StopBegin(c) ==
    /\ callerPc[c] = "idle"
    /\ rep_running' = FALSE
    /\ IF rep_task = 0
       THEN /\ lastOp' = [op |-> "stop", wasRunning |-> rep_running,
                          taskBefore |-> 0, tasksBefore |-> Len(tasks),
                  attempts |-> attempts]
            /\ UNCHANGED <<tasks, callerPc, awaiting>>
       ELSE /\ tasks' = [tasks EXCEPT ![rep_task].cancel = Alive(rep_task)]
            /\ callerPc' = [callerPc EXCEPT ![c] = "stop_await"]
            /\ awaiting' = [awaiting EXCEPT ![c] = rep_task]
            /\ lastOp' = [op |-> "stopping", wasRunning |-> rep_running,
                          taskBefore |-> rep_task, tasksBefore |-> Len(tasks),
                  attempts |-> attempts]
    /\ UNCHANGED <<rep_task, consecutive_failures, failedSince, cycles,
                   attempts, wakes>>
    /\ UNCHANGED notReporter

\* reporter.py:75-79: the awaited task has finished; self._task = None
StopResume(c) ==
    /\ callerPc[c] = "stop_await"
    /\ StopMayResume(awaiting[c])
    /\ rep_task' = 0
    /\ callerPc' = [callerPc EXCEPT ![c] = "idle"]
    /\ awaiting' = [awaiting EXCEPT ![c] = 0]
    /\ lastOp' = [lastOp EXCEPT !.op = "stop", !.attempts = attempts]
    /\ UNCHANGED <<rep_running, tasks, consecutive_failures, failedSince,
                   cycles, attempts, wakes>>
    /\ UNCHANGED notReporter

\* ---- _report_loop(metrics_collector): reporter.py:85-111 ----

\* reporter.py:87-89: the task's first step, up to the sleep
LoopStart(k) ==
    /\ tasks[k].st = "new" /\ ~tasks[k].cancel
    /\ tasks' = [tasks EXCEPT ![k] =
                    IF rep_running
                    THEN [st |-> "sleep", cancel |-> FALSE, endedBy |-> "none"]
                    ELSE [st |-> "done", cancel |-> FALSE,
                          endedBy |-> "not_running"]]
    /\ UNCHANGED <<rep_running, rep_task, consecutive_failures, callerPc,
                   awaiting, lastOp, failedSince, cycles, attempts, wakes>>
    /\ UNCHANGED notReporter

\* reporter.py:89-95: the sleep is over; unless _running was cleared the
\* snapshot is taken, the proofs are drained and _send_report runs up to the
\* POST.  ok = FALSE: one of these raised (reporter.py:109-111).
LoopWake(k, ok) ==
    /\ tasks[k].st = "sleep" /\ ~tasks[k].cancel
    /\ cycles < MaxCycles
    /\ IF ~rep_running
       THEN /\ tasks' = [tasks EXCEPT ![k] = [st |-> "done", cancel |-> FALSE,
                                              endedBy |-> "not_running"]]
            /\ UNCHANGED <<consecutive_failures, failedSince, cycles,
                           attempts, wakes>>
       ELSE /\ wakes' = wakes + 1
            /\ attempts' = attempts + 1
            /\ cycles' = cycles + 1
            /\ IF ok
               THEN /\ tasks' = [tasks EXCEPT ![k].st = "send"]
                    /\ UNCHANGED <<consecutive_failures, failedSince>>
               ELSE /\ consecutive_failures' =
                           FailuresAfter("raise", consecutive_failures)
                    /\ failedSince' = failedSince + 1
                    /\ tasks' = [tasks EXCEPT ![k] =
                                    AfterCycle(consecutive_failures')]
    /\ UNCHANGED <<rep_running, rep_task, callerPc, awaiting, lastOp>>
    /\ UNCHANGED notReporter

\* reporter.py:95-111: _send_report has come back
LoopSendDone(k, res) ==
    /\ tasks[k].st = "send" /\ ~tasks[k].cancel
    /\ consecutive_failures' = FailuresAfter(res, consecutive_failures)
    /\ failedSince' = IF res = "success" THEN 0 ELSE failedSince + 1
    /\ tasks' = [tasks EXCEPT ![k] = AfterCycle(consecutive_failures')]
    /\ UNCHANGED <<rep_running, rep_task, callerPc, awaiting, lastOp, cycles,
                   attempts, wakes>>
    /\ UNCHANGED notReporter

\* reporter.py:107-108: the CancelledError is re-raised and ends the task
LoopCancelled(k) ==
    /\ Alive(k) /\ tasks[k].cancel
    /\ tasks' = [tasks EXCEPT ![k] = [st |-> "done", cancel |-> TRUE,
                                      endedBy |-> "cancel"]]
    /\ UNCHANGED <<rep_running, rep_task, consecutive_failures, callerPc,
                   awaiting, lastOp, failedSince, cycles, attempts, wakes>>
    /\ UNCHANGED notReporter

\* OracleReporter.__init__: reporter.py:35-53
ReporterInit ==
    /\ rep_running = FALSE
    /\ rep_task = 0
    /\ consecutive_failures = 0
    /\ tasks = <<>>
    /\ callerPc = [c \in Callers |-> "idle"]
    /\ awaiting = [c \in Callers |-> 0]
    /\ lastOp = [op |-> "none", wasRunning |-> FALSE, taskBefore |-> 0,
                 tasksBefore |-> 0, attempts |-> 0]
    /\ failedSince = 0
    /\ cycles = 0
    /\ attempts = 0
    /\ wakes = 0

ReporterNext ==
    \/ \E c \in SeqCallers : Start(c)
    \/ \E c \in SeqCallers : StopBegin(c)
    \/ \E c \in SeqCallers : StopResume(c)
    \/ \E k \in TaskIds : LoopStart(k)
    \/ \E k \in TaskIds, ok \in BOOLEAN : LoopWake(k, ok)
    \/ \E k \in TaskIds, res \in CycleResults : LoopSendDone(k, res)
    \/ \E k \in TaskIds : LoopCancelled(k)

\* start() and stop() called by coroutines that do not wait for one another:
\* a call can run while a stop() is suspended at "await self._task"
ReporterConcurrentNext ==
    \/ \E c \in Callers : Start(c)
    \/ \E c \in Callers : StopBegin(c)
    \/ \E c \in Callers : StopResume(c)
    \/ \E k \in TaskIds : LoopStart(k)
    \/ \E k \in TaskIds, ok \in BOOLEAN : LoopWake(k, ok)
    \/ \E k \in TaskIds, res \in CycleResults : LoopSendDone(k, res)
    \/ \E k \in TaskIds : LoopCancelled(k)

-----------------------------------------------------------------------------
(***************************************************************************)
(* OracleReporter._send_report                                             *)
(*                                                                         *)
(* One call is one POST.  What the oracle and the network do is the input: *)
(* whether a response arrives at all, its status, and what reading its     *)
(* body gives.  A call ends by returning True or False or by raising.      *)
(***************************************************************************)

\* reporter.py:146-147, 180-185: how the POST itself ends
\*   response      a response object is delivered
\*   timeout       asyncio.TimeoutError (the 30 s ClientTimeout)
\*   client_error  aiohttp.ClientError (connection refused, reset, ...)
Transports == {"response", "timeout", "client_error"}

\* resp.status: values on both sides of 200 and 300
Statuses == {101, 199, 200, 204, 299, 300, 404, 500}

\* reporter.py:151: what "await resp.json()" gives for a status below 300
\*   dict_ok        a JSON object whose "status" is absent or not "error"
\*   dict_error     a JSON object with "status": "error"
\*   non_dict       JSON that is not an object (a list, a string, a number)
\*   not_json       json.JSONDecodeError
\*   content_type   aiohttp.ContentTypeError (the body is not declared JSON)
\*   undecodable    UnicodeDecodeError (the bytes are not in the charset)
\*   read_error     aiohttp.ClientError while the body is read
\*   read_timeout   asyncio.TimeoutError while the body is read
Bodies == {"dict_ok", "dict_error", "non_dict", "not_json", "content_type",
           "undecodable", "read_error", "read_timeout"}

\* reporter.py:161: resp_data.get("message", "unknown error") of a dict_error
\*   string      a str: "[:200]" slices it
\*   absent      no "message": the default string is sliced
\*   unsliceable a value "[:200]" raises TypeError on (null, a number)
Messages == {"string", "absent", "unsliceable"}

\* reporter.py:175: what "await resp.text()" gives for a status of 300 or more
Texts == {"text", "undecodable", "read_error", "read_timeout"}

Exchanges ==
    { [net |-> n, status |-> 0, body |-> "none", message |-> "none"] :
          n \in Transports \ {"response"} }
    \cup { [net |-> "response", status |-> s, body |-> b, message |-> "none"] :
          s \in {x \in Statuses : x < 300}, b \in Bodies \ {"dict_error"} }
    \cup { [net |-> "response", status |-> s, body |-> "dict_error",
            message |-> m] :
          s \in {x \in Statuses : x < 300}, m \in Messages }
    \cup { [net |-> "response", status |-> s, body |-> t, message |-> "none"] :
          s \in {x \in Statuses : x >= 300}, t \in Texts }

\* reporter.py:148: the branch taken as the success branch
AcceptedStatus(s) == s < 300

\* reporter.py:152-157: a parsed body that is not a dict
\* (_Accepted: the isinstance check left out)
NonDictResult_Accepted == "True"

NonDictResult == "False"

\* reporter.py:180-185: the two exceptions the outer try converts to False
CaughtOuter(e) == e \in {"read_error", "read_timeout"}

\* reporter.py:148-173: the branch for an accepted status
AcceptedBranch(x) ==
    CASE x.body = "dict_ok"      -> "True"
      [] x.body = "dict_error"   ->
             IF x.message = "unsliceable" THEN "raise" ELSE "False"
      [] x.body = "non_dict"     -> NonDictResult
      [] x.body \in {"not_json", "content_type"} -> "True"
      [] CaughtOuter(x.body)     -> "False"
      [] OTHER                   -> "raise"

\* reporter.py:174-179: the branch for any other status
RejectedBranch(x) ==
    CASE x.body = "text"     -> "False"
      [] CaughtOuter(x.body) -> "False"
      [] OTHER               -> "raise"

\* reporter.py:144-185: what _send_report comes to
SendReportResult(x) ==
    IF x.net # "response" THEN "False"
    ELSE IF AcceptedStatus(x.status) THEN AcceptedBranch(x)
    ELSE RejectedBranch(x)

\* one call of _send_report
SendReport(x) ==
    /\ Len(sendCalls) < MaxSends
    /\ sendCalls' = Append(sendCalls, [x |-> x, ret |-> SendReportResult(x)])
    /\ UNCHANGED notSend

SendInit == sendCalls = <<>>

SendNext == \E x \in Exchanges : SendReport(x)

-----------------------------------------------------------------------------
(***************************************************************************)
(* RewardTracker                                                           *)
(*                                                                         *)
(* The tracker is configured once (rewards.py:50-59).  Every method is a   *)
(* synchronous call; what the ledger answers is the input of the call.  A  *)
(* call is recorded with the ledger steps it made and with its result: a   *)
(* value, None, or an exception that reached the caller.                   *)
(***************************************************************************)

\* claim thresholds tried, and the pending rewards the contract may report
Thresholds == {0, 2, 3}
Rewards == 0..MaxReward

\* results of a call
IntRet(v) == [kind |-> "int", val |-> v]
BoolRet(b) == [kind |-> "bool", val |-> IF b THEN 1 ELSE 0]
NoneRet == [kind |-> "None", val |-> 0]
TupleRet == [kind |-> "Contribution", val |-> 0]
HashRet == [kind |-> "hash", val |-> 0]
Raised == [kind |-> "raise", val |-> 0]

\* what a contract read (".call()") comes to
\*   ok         it returns the value asked for
\*   fail       it raises (timeout, revert, connection error)
\*   malformed  it returns a value of the wrong shape
ReadOutcomes == {"ok", "fail", "malformed"}

\* rewards.py:72-76, 82-87, 93-97: "except Exception" turns a failed read into
\* the method's default
\* (_Propagates: the exception reaching the caller)
FailedRead_Propagates(default) == Raised

FailedRead(default) == default

\* rewards.py:70-76
get_pending_reward(out, value) ==
    IF ~pool THEN IntRet(0)
    ELSE IF out = "fail" THEN FailedRead(IntRet(0))
    ELSE IntRet(value)

\* rewards.py:80-87: Contribution(*raw) is inside the try, so a raw value of
\* the wrong arity ends in the except branch too
get_contribution(out) ==
    IF ~pool THEN NoneRet
    ELSE IF out \in {"fail", "malformed"} THEN FailedRead(NoneRet)
    ELSE TupleRet

\* rewards.py:91-97
get_current_epoch(out, value) ==
    IF ~pool THEN IntRet(0)
    ELSE IF out = "fail" THEN FailedRead(IntRet(0))
    ELSE IntRet(value)

\* the contract reads a query made
ReadsMade == IF pool THEN {"call"} ELSE {}

\* rewards.py:107: the comparison of should_claim()
\* (_Strict: ">" in place of ">=")
ThresholdMet_Strict(reward, threshold) == reward > threshold

ThresholdMet(reward, threshold) == reward >= threshold

\* rewards.py:105-114
should_claim(out, value) ==
    LET reward == get_pending_reward(out, value)
    IN IF reward.kind = "raise" THEN Raised
       ELSE BoolRet(ThresholdMet(reward.val, claim_threshold_wei))

\* How far the try block of claim_reward() gets (rewards.py:125-143):
\*   nonce_err  get_transaction_count raises
\*   gas_err    gas_price raises
\*   build_err  build_transaction raises
\*   sign_err   sign_transaction raises
\*   send_err   send_raw_transaction raises
\*   sent       send_raw_transaction returned the hash
ClaimOutcomes == {"nonce_err", "gas_err", "build_err", "sign_err", "send_err",
                  "sent"}

\* rewards.py:126-140: the steps of a claim; there is no receipt wait
\* (_WaitsForReceipt: a wait_for_transaction_receipt after the send)
ClaimSteps_WaitsForReceipt(out) ==
    CASE out = "nonce_err" -> {"nonce"}
      [] out = "gas_err"   -> {"nonce", "gas"}
      [] out = "build_err" -> {"nonce", "gas", "build"}
      [] out = "sign_err"  -> {"nonce", "gas", "build", "sign"}
      [] out = "send_err"  -> {"nonce", "gas", "build", "sign", "send"}
      [] OTHER             -> {"nonce", "gas", "build", "sign", "send", "wait"}

ClaimSteps(out) ==
    CASE out = "nonce_err" -> {"nonce"}
      [] out = "gas_err"   -> {"nonce", "gas"}
      [] out = "build_err" -> {"nonce", "gas", "build"}
      [] out = "sign_err"  -> {"nonce", "gas", "build", "sign"}
      [] OTHER             -> {"nonce", "gas", "build", "sign", "send"}

\* rewards.py:121-143
claim_reward(out) ==
    IF ~pool THEN [ret |-> NoneRet, steps |-> {}]
    ELSE [ret |-> IF out = "sent" THEN HashRet ELSE NoneRet,
          steps |-> ClaimSteps(out)]

\* rewards.py:150: "if self.should_claim()" decides whether to claim
\* (_Always: the claim made whatever should_claim() returned)
ReadyToClaim_Always(answer) == TRUE

ReadyToClaim(answer) == answer.val = 1

\* rewards.py:145-152: should_claim(), then claim_reward() or None
claim_if_ready(out, value, sent) ==
    LET answer == should_claim(out, value)
    IN IF answer.kind = "raise" THEN [ret |-> Raised, steps |-> ReadsMade]
       ELSE IF ReadyToClaim(answer)
            THEN [ret |-> claim_reward(sent).ret,
                  steps |-> ReadsMade \cup claim_reward(sent).steps]
            ELSE [ret |-> NoneRet, steps |-> ReadsMade]

\* rewards.py:38-59: the tracker is built with the configuration; the pool
\* contract object exists exactly when reward_pool_address is set
RewardTracker(address_set, threshold) ==
    /\ ~tracker
    /\ tracker' = TRUE
    /\ pool' = address_set
    /\ claim_threshold_wei' = threshold
    /\ UNCHANGED rewardCalls
    /\ UNCHANGED notRewards

\* a call can be made, and the record it leaves
RewardsReady == tracker /\ Len(rewardCalls) < MaxRewardCalls

RewardCall(op, out, value, ret, steps) ==
    Append(rewardCalls, [op |-> op, out |-> out, value |-> value,
                         ret |-> ret, steps |-> steps])

GetPendingReward(out, value) ==
    /\ RewardsReady
    /\ rewardCalls' =
          RewardCall("get_pending_reward", out, value,
                      get_pending_reward(out, value), ReadsMade)
    /\ UNCHANGED <<pool, claim_threshold_wei, tracker>>
    /\ UNCHANGED notRewards

GetContribution(out) ==
    /\ RewardsReady
    /\ rewardCalls' =
          RewardCall("get_contribution", out, 0, get_contribution(out), ReadsMade)
    /\ UNCHANGED <<pool, claim_threshold_wei, tracker>>
    /\ UNCHANGED notRewards

GetCurrentEpoch(out, value) ==
    /\ RewardsReady
    /\ rewardCalls' =
          RewardCall("get_current_epoch", out, value,
                      get_current_epoch(out, value), ReadsMade)
    /\ UNCHANGED <<pool, claim_threshold_wei, tracker>>
    /\ UNCHANGED notRewards

ShouldClaim(out, value) ==
    /\ RewardsReady
    /\ rewardCalls' =
          RewardCall("should_claim", out, value, should_claim(out, value),
                      ReadsMade)
    /\ UNCHANGED <<pool, claim_threshold_wei, tracker>>
    /\ UNCHANGED notRewards

ClaimReward(out) ==
    /\ RewardsReady
    /\ rewardCalls' =
          RewardCall("claim_reward", out, 0, claim_reward(out).ret,
                      claim_reward(out).steps)
    /\ UNCHANGED <<pool, claim_threshold_wei, tracker>>
    /\ UNCHANGED notRewards

ClaimIfReady(out, value, sent) ==
    /\ RewardsReady
    /\ rewardCalls' =
          RewardCall("claim_if_ready", out, value,
                      claim_if_ready(out, value, sent).ret,
                      claim_if_ready(out, value, sent).steps)
    /\ UNCHANGED <<pool, claim_threshold_wei, tracker>>
    /\ UNCHANGED notRewards

RewardsInit ==
    /\ tracker = FALSE
    /\ pool = FALSE
    /\ claim_threshold_wei = 0
    /\ rewardCalls = <<>>

RewardsNext ==
    \/ \E a \in BOOLEAN, t \in Thresholds : RewardTracker(a, t)
    \/ \E out \in {"ok", "fail"}, v \in Rewards : GetPendingReward(out, v)
    \/ \E out \in ReadOutcomes : GetContribution(out)
    \/ \E out \in {"ok", "fail"}, v \in Rewards : GetCurrentEpoch(out, v)
    \/ \E out \in {"ok", "fail"}, v \in Rewards : ShouldClaim(out, v)
    \/ \E out \in ClaimOutcomes : ClaimReward(out)
    \/ \E out \in {"ok", "fail"}, v \in Rewards,
          sent \in {"nonce_err", "send_err", "sent"} :
             ClaimIfReady(out, v, sent)

-----------------------------------------------------------------------------
(***************************************************************************)
(* InferenceProofGenerator                                                 *)
(*                                                                         *)
(* Data is a str (a sequence of code points) or bytes (a sequence of byte  *)
(* values).  keccak256 is modelled as a collision-free function of the     *)
(* bytes it is given: the digest is the tagged preimage.  A hex address is *)
(* its 20 bytes together with the letter case it is written in.            *)
(***************************************************************************)

\* str and bytes values
Str(points) == [type |-> "str", data |-> points]
Bytes(octets) == [type |-> "bytes", data |-> octets]

\* UTF-8: a code point below 128 is one byte, one below 2048 is two bytes
RECURSIVE Utf8(_)
Utf8(points) ==
    IF points = <<>> THEN <<>>
    ELSE LET c == Head(points)
         IN (IF c < 128 THEN <<c>>
             ELSE <<192 + (c \div 64), 128 + (c % 64)>>) \o Utf8(Tail(points))

\* Web3.keccak(text=...) hashes the UTF-8 encoding, Web3.keccak(primitive=...)
\* the bytes themselves
Keccak(octets) == <<"keccak256", octets>>
KeccakText(points) == Keccak(Utf8(points))

\* proof.py:115-118, 121-124: the isinstance branch
HashData(d) == IF d.type = "str" THEN KeccakText(d.data) ELSE Keccak(d.data)

\* Web3.to_checksum_address: the same 20 bytes in checksum case
to_checksum_address(a) == [a EXCEPT !.form = "checksum"]

\* proof.py:128-129: bytes.fromhex(address[2:]).rjust(32, b"\x00")
AddrPadded(a) == <<"pad12", a.octets>>

\* the generator's configuration and the data the calls are made with
ModelName == <<98, 108, 111, 111, 109>>
AgentAddress == [octets |-> "0xabcd", form |-> "lower"]
Inputs == {Str(<<97>>), Bytes(<<97>>), Str(<<233>>), Bytes(<<195, 169>>)}
Outputs == {Str(<<111, 107>>), Bytes(<<0>>)}
TokenCounts == {1, 2}

\* proof.py:131-138: the bytes the proof hash is taken of
\* (_WithSequence: the number of proofs made so far mixed into the hash)
ProofPreimage_WithSequence(mh, ih, oh, addr) ==
    <<mh, ih, oh, addr, Len(proofCalls)>>

ProofPreimage(mh, ih, oh, addr) == <<mh, ih, oh, addr>>

\* proof.py:140-147
ProofData(mh, ih, oh, agent, tokens, ph) ==
    [model_hash |-> mh, input_hash |-> ih, output_hash |-> oh,
     agent_address |-> agent, token_count |-> tokens, proof_hash |-> ph]

\* proof.py:98-147
generate_proof(input_data, output_data, token_count) ==
    LET input_hash  == HashData(input_data)
        output_hash == HashData(output_data)
        proof_hash  == Keccak(ProofPreimage(model_hash, input_hash,
                                            output_hash,
                                            AddrPadded(agent_address)))
    IN ProofData(model_hash, input_hash, output_hash, agent_address,
                 token_count, proof_hash)

GenerateProof(input_data, output_data, token_count) ==
    /\ Len(proofCalls) < MaxProofs
    /\ proofCalls' = Append(proofCalls,
          [input |-> input_data, output |-> output_data,
           tokens |-> token_count,
           proof |-> generate_proof(input_data, output_data, token_count)])
    /\ UNCHANGED <<model_hash, agent_address>>
    /\ UNCHANGED notProof

\* proof.py:84-89
ProofInit ==
    /\ model_hash = KeccakText(ModelName)
    /\ agent_address = to_checksum_address(AgentAddress)
    /\ proofCalls = <<>>

ProofNext ==
    \E i \in Inputs, o \in Outputs, n \in TokenCounts : GenerateProof(i, o, n)

-----------------------------------------------------------------------------
(***************************************************************************)
(* PlumiseAuth                                                             *)
(*                                                                         *)
(* Ledger reads are synchronous calls whose outcome is the input.  A dict  *)
(* is the sequence of its (key, value) pairs in insertion order; values    *)
(* are numbers.  A signature is modelled by what determines it: the key    *)
(* and the signed message (eth_account signs deterministically).           *)
(***************************************************************************)

\* auth.py:45-46: the account and its address
PrivateKey == 170
AddressOf(key) == key + 1
Address == AddressOf(PrivateKey)

\* ---- ledger reads ----

\* auth.py:78-82, 92-93: without a registry the checks answer optimistically
\* (_Pessimistic: False without a registry)
UnconfiguredCheck_Pessimistic == BoolRet(FALSE)

UnconfiguredCheck == BoolRet(TRUE)

\* auth.py:65-69
is_chain_connected(out) == BoolRet(out = "ok")

\* auth.py:78-88
verify_registration(out, flag) ==
    IF ~registry THEN UnconfiguredCheck
    ELSE IF out = "ok" THEN BoolRet(flag) ELSE BoolRet(FALSE)

\* auth.py:92-99
is_active(out, flag) ==
    IF ~registry THEN UnconfiguredCheck
    ELSE IF out = "ok" THEN BoolRet(flag) ELSE BoolRet(FALSE)

\* auth.py:103-111: AgentInfo(*raw) is inside the try
get_agent_info(out) ==
    IF ~registry THEN NoneRet
    ELSE IF out = "ok" THEN TupleRet ELSE NoneRet

\* auth.py:149-151: no try block around the read
get_balance(out, wei) == IF out = "ok" THEN IntRet(wei) ELSE Raised

\* the registry reads a check made
RegistryReads == IF registry THEN {"call"} ELSE {}

\* plumise_server.py:142-172: the reads _preflight_checks makes, in order,
\* and how it ends.  probe and bal are the outcomes of the connectivity probe
\* and of the balance read; the registry checks cannot raise.
PreflightReads(probe, bal) ==
    <<"block_number">>
    \o (IF is_chain_connected(probe) = BoolRet(TRUE)
        THEN <<"get_balance">> ELSE <<>>)
    \o (IF is_chain_connected(probe) = BoolRet(TRUE)
           /\ get_balance(bal, 0) = Raised
        THEN <<>>
        ELSE IF registry THEN <<"isRegistered", "isActive">> ELSE <<>>)

_preflight_checks(probe, bal) ==
    IF is_chain_connected(probe) = BoolRet(TRUE) /\ get_balance(bal, 0) = Raised
    THEN Raised
    ELSE NoneRet

\* ---- signing ----

\* keys in the order sort_keys puts them
KeyOrder == <<"agent", "avg_latency_ms", "processed_tokens", "proofs",
              "tasks_completed", "timestamp", "uptime_seconds">>

Keys(d) == {d[i][1] : i \in DOMAIN d}
Lookup(d, k) == (CHOOSE i \in DOMAIN d : d[i][1] = k)
Items(d) == {d[i] : i \in DOMAIN d}

RECURSIVE SortedFrom(_, _)
SortedFrom(order, d) ==
    IF order = <<>> THEN <<>>
    ELSE (IF Head(order) \in Keys(d)
          THEN <<d[Lookup(d, Head(order))]>> ELSE <<>>)
         \o SortedFrom(Tail(order), d)

\* auth.py:142: json.dumps(payload, sort_keys=True, separators=(",", ":"))
\* (_InsertionOrder: sort_keys left out)
Canonical_InsertionOrder(d) == [separators |-> "compact", items |-> d]

Canonical(d) == [separators |-> "compact", items |-> SortedFrom(KeyOrder, d)]

\* auth.py:126: encode_defunct(text=message), the personal_sign envelope
encode_defunct(message) == [envelope |-> "personal_sign", text |-> message]

\* auth.py:126-128
sign_message(message) == [by |-> PrivateKey, over |-> encode_defunct(message)]

\* auth.py:142-143
sign_payload(d) == sign_message(Canonical(d))

\* Account.recover_message: the address whose key signed this message, and
\* some other address when the signature is over another message
Recover(message, signature) ==
    IF signature.over = encode_defunct(message)
    THEN AddressOf(signature.by) ELSE 0

\* reporter.py:126-137: the payload of a report, in the order it is built
Snapshots == { [tokens |-> 0, requests |-> 0, latency |-> 0, uptime |-> 1],
               [tokens |-> 5, requests |-> 2, latency |-> 3, uptime |-> 4] }

ReportPayload_TasksFromTokens(m, now, proofs) ==
    << <<"agent", Address>>,
       <<"processed_tokens", m.tokens>>,
       <<"avg_latency_ms", m.latency>>,
       <<"uptime_seconds", m.uptime>>,
       <<"tasks_completed", m.tokens>>,
       <<"timestamp", now>> >>
    \o (IF proofs > 0 THEN << <<"proofs", proofs>> >> ELSE <<>>)

ReportPayload(m, now, proofs) ==
    << <<"agent", Address>>,
       <<"processed_tokens", m.tokens>>,
       <<"avg_latency_ms", m.latency>>,
       <<"uptime_seconds", m.uptime>>,
       <<"tasks_completed", m.requests>>,
       <<"timestamp", now>> >>
    \o (IF proofs > 0 THEN << <<"proofs", proofs>> >> ELSE <<>>)

\* reporter.py:139-142: the body handed to session.post
ReportBody(m, now, proofs) ==
    [payload |-> ReportPayload(m, now, proofs),
     signature |-> sign_payload(ReportPayload(m, now, proofs))]

\* str.rstrip(c): the string without the run of c at its end
RECURSIVE RStrip(_, _)
RStrip(str, c) ==
    IF str # <<>> /\ str[Len(str)] = c
    THEN RStrip(SubSeq(str, 1, Len(str) - 1), c)
    ELSE str

\* base URLs the reporter is built with, a string being its characters
OracleUrls == { <<"h", ":", "8">>, <<"h", ":", "8", "/">>,
                <<"h", "/", "v", "/", "/">> }

ReportPath == <<"/", "a", "p", "i", "/", "v", "1", "/", "r", "e", "p", "o",
                "r", "t">>

\* reporter.py:41 and 141: self.oracle_url and the URL of the POST
ReportUrl(oracle_url) == RStrip(oracle_url, "/") \o ReportPath

\* dicts handed to sign_payload directly
SmallPairs == { <<"agent", Address>>, <<"processed_tokens", 0>>,
                <<"processed_tokens", 5>>, <<"timestamp", 9>> }

Reversed(d) == [i \in DOMAIN d |-> d[Len(d) + 1 - i]]

Dicts ==
    { d \in [1..2 -> SmallPairs] \cup [1..3 -> SmallPairs] :
          \A i, j \in DOMAIN d : i # j => d[i][1] # d[j][1] }
    \cup { Reversed(ReportPayload(m, 9, n)) : m \in Snapshots, n \in {0, 2} }

\* ---- the calls ----

\* auth.py:42-57
PlumiseAuth(address_set) ==
    /\ ~auth
    /\ auth' = TRUE
    /\ registry' = address_set
    /\ UNCHANGED <<authCalls, posted>>
    /\ UNCHANGED notAuth

\* a call can be made, and the record it leaves
AuthReady == auth /\ Len(authCalls) < MaxAuthCalls

AuthCall(op, in, ret, reads, sig) ==
    Append(authCalls, [op |-> op, in |-> in, ret |-> ret, reads |-> reads,
                       signature |-> sig])

\* a call's inputs: the outcome of its read (and of the balance read, for the
\* preflight), the dict it signs, the report it builds
NoDict == <<>>
NoSignature == sign_payload(NoDict)
SignatureRet == [kind |-> "signature", val |-> 0]
Read(out) == [out |-> out, bal |-> "none", dict |-> NoDict]

NoPost == [made |-> FALSE, base |-> <<>>, url |-> <<>>,
           snapshot |-> [tokens |-> 0, requests |-> 0, latency |-> 0,
                         uptime |-> 0],
           body |-> [payload |-> NoDict, signature |-> NoSignature]]

IsChainConnected(out) ==
    /\ AuthReady
    /\ authCalls' =
          AuthCall("is_chain_connected", Read(out),
                    is_chain_connected(out), {"call"}, NoSignature)
    /\ UNCHANGED <<auth, registry, posted>>
    /\ UNCHANGED notAuth

VerifyRegistration(out, flag) ==
    /\ AuthReady
    /\ authCalls' =
          AuthCall("verify_registration", Read(out),
                    verify_registration(out, flag), RegistryReads, NoSignature)
    /\ UNCHANGED <<auth, registry, posted>>
    /\ UNCHANGED notAuth

IsActive(out, flag) ==
    /\ AuthReady
    /\ authCalls' =
          AuthCall("is_active", Read(out),
                    is_active(out, flag), RegistryReads, NoSignature)
    /\ UNCHANGED <<auth, registry, posted>>
    /\ UNCHANGED notAuth

GetAgentInfo(out) ==
    /\ AuthReady
    /\ authCalls' =
          AuthCall("get_agent_info", Read(out),
                    get_agent_info(out), RegistryReads, NoSignature)
    /\ UNCHANGED <<auth, registry, posted>>
    /\ UNCHANGED notAuth

GetBalance(out, wei) ==
    /\ AuthReady
    /\ authCalls' =
          AuthCall("get_balance", Read(out),
                    get_balance(out, wei), {"call"}, NoSignature)
    /\ UNCHANGED <<auth, registry, posted>>
    /\ UNCHANGED notAuth

Preflight(probe, bal) ==
    /\ AuthReady
    /\ authCalls' =
          AuthCall("_preflight_checks",
                    [out |-> probe, bal |-> bal, dict |-> NoDict],
                    _preflight_checks(probe, bal),
                    {PreflightReads(probe, bal)[i] :
                         i \in DOMAIN PreflightReads(probe, bal)},
                    NoSignature)
    /\ UNCHANGED <<auth, registry, posted>>
    /\ UNCHANGED notAuth

SignPayload(d) ==
    /\ AuthReady
    /\ authCalls' =
          AuthCall("sign_payload", [out |-> "ok", bal |-> "none", dict |-> d],
                    SignatureRet, {}, sign_payload(d))
    /\ UNCHANGED <<auth, registry, posted>>
    /\ UNCHANGED notAuth

\* reporter.py:126-142: the payload is built, signed and put into the body
\* together with its signature
SendReportBody(base, m, now, proofs) ==
    /\ AuthReady
    /\ posted' = [made |-> TRUE, base |-> base, url |-> ReportUrl(base),
                  snapshot |-> m, body |-> ReportBody(m, now, proofs)]
    /\ authCalls' =
          AuthCall("_send_report",
                    [out |-> "ok", bal |-> "none",
                     dict |-> ReportBody(m, now, proofs).payload],
                    SignatureRet, {}, ReportBody(m, now, proofs).signature)
    /\ UNCHANGED <<auth, registry>>
    /\ UNCHANGED notAuth

AuthInit ==
    /\ auth = FALSE
    /\ registry = FALSE
    /\ authCalls = <<>>
    /\ posted = NoPost

AuthNext ==
    \/ \E a \in BOOLEAN : PlumiseAuth(a)
    \/ \E out \in {"ok", "fail"} : IsChainConnected(out)
    \/ \E out \in {"ok", "fail"}, f \in BOOLEAN : VerifyRegistration(out, f)
    \/ \E out \in {"ok", "fail"}, f \in BOOLEAN : IsActive(out, f)
    \/ \E out \in ReadOutcomes : GetAgentInfo(out)
    \/ \E out \in {"ok", "fail"}, w \in {0, 3} : GetBalance(out, w)
    \/ \E probe \in {"ok", "fail"}, bal \in {"ok", "fail"} :
           Preflight(probe, bal)
    \/ \E d \in Dicts : SignPayload(d)
    \/ \E base \in OracleUrls, m \in Snapshots, now \in {9}, n \in {0, 2} :
           SendReportBody(base, m, now, n)

-----------------------------------------------------------------------------
(* PlumiseServer.record_inference (plumise_server.py:358-404) and the       *)
(* collector's proof buffer.  MetricsCollector.record_proof and             *)
(* drain_proofs are called at plumise_server.py:396 and reporter.py:94,191  *)
(* but are not in metrics.py; they are modelled from the specification of   *)
(* the collector: a FIFO buffer whose operations share the collector's one  *)
(* lock, drain_proofs emptying the buffer and returning what it held.       *)

\* the threads that call record_inference: the HTTP API's and a plain one
Handlers == {1, 2}

ApiHandler == CHOOSE w \in Handlers : \A v \in Handlers : w <= v

\* calls of record_inference begun so far
Begun == col_requests

\* the thread of the report loop, the caller of drain_proofs
Drainer == Cardinality(Handlers) + 1

NoProof == [by |-> 0, seq |-> 0]

\* ProofData of the n-th call of handler w
ProofOf(w, n) == [by |-> w, seq |-> n]

NoReturn == [returned |-> FALSE, gen |-> FALSE,
             kind |-> "none", proof |-> NoProof, made |-> NoProof,
             buffered |-> FALSE]

IdleHandler == [pc |-> "idle", calls |-> 0, gen |-> FALSE,
                proof |-> NoProof, last |-> NoReturn]

\* the handler of the HTTP API runs record_inference inside its own event
\* loop (api/server.py:186); the other handlers are plain threads
HasLoop(w) == w = ApiHandler

InSeq(x, s) == \E i \in 1 .. Len(s) : s[i] = x

\* threading.Lock: acquired only when nobody holds it
BufLockFree_NoLock == TRUE

BufLockFree == buf_lock = 0

\* asyncio.get_event_loop() in a thread that has no current event loop
\* raises RuntimeError; plumise_server.py:399-402 calls it outside any try
VerifyRaises(w) == server.verify_on_chain /\ ~HasLoop(w)

\* PlumiseServer.__init__ with config.verify_on_chain = v
PlumiseServer(v) ==
    /\ ~server.built
    /\ server' = [built |-> TRUE, verify_on_chain |-> v]
    /\ UNCHANGED <<col_requests, proof_buf, buf_lock, wk, dr, drained,
                   lastDrain, pushed>>
    /\ UNCHANGED notServer

\* plumise_server.py:382: self.metrics.record_inference(token_count, latency)
\* gen: whether generate_proof will succeed on this call's data
RecInfMetrics(w, gen) ==
    /\ server.built
    /\ wk[w].pc = "idle"
    /\ Begun < MaxRecords
    /\ BufLockFree
    /\ col_requests' = col_requests + 1
    /\ wk' = [wk EXCEPT ![w] = [@ EXCEPT !.pc = "generate", !.gen = gen,
                                         !.proof = NoProof]]
    /\ UNCHANGED <<server, proof_buf, buf_lock, dr, drained, lastDrain,
                   pushed>>
    /\ UNCHANGED notServer

\* plumise_server.py:385-393: generate_proof; an exception is logged and
\* record_inference returns None
RecInfGenerate(w) ==
    /\ wk[w].pc = "generate"
    /\ wk' = [wk EXCEPT ![w] =
                IF wk[w].gen
                THEN [@ EXCEPT !.pc = "push",
                               !.proof = ProofOf(w, wk[w].calls + 1)]
                ELSE [@ EXCEPT !.pc = "idle", !.calls = @ + 1,
                               !.last = [returned |-> TRUE, gen |-> FALSE,
                                         kind |-> "none", proof |-> NoProof,
                                         made |-> NoProof,
                                         buffered |-> FALSE]]]
    /\ UNCHANGED <<server, col_requests, proof_buf, buf_lock, dr, drained,
                   lastDrain, pushed>>
    /\ UNCHANGED notServer

\* plumise_server.py:396: self.metrics.record_proof(proof), entering the lock
RecordProofAcquire(w) ==
    /\ wk[w].pc = "push"
    /\ BufLockFree
    /\ buf_lock' = w
    /\ wk' = [wk EXCEPT ![w].pc = "append"]
    /\ UNCHANGED <<server, col_requests, proof_buf, dr, drained, lastDrain,
                   pushed>>
    /\ UNCHANGED notServer

\* record_proof: the append and the release of the lock
RecordProofAppend(w) ==
    /\ wk[w].pc = "append"
    /\ proof_buf' = Append(proof_buf, wk[w].proof)
    /\ pushed' = Append(pushed, wk[w].proof)
    /\ buf_lock' = IF buf_lock = w THEN 0 ELSE buf_lock
    /\ wk' = [wk EXCEPT ![w].pc = "verify"]
    /\ UNCHANGED <<server, col_requests, dr, drained, lastDrain>>
    /\ UNCHANGED notServer

\* plumise_server.py:399-404: the optional scheduling of the ledger
\* verification, then return proof
RecInfReturn(w) ==
    /\ wk[w].pc = "verify"
    /\ wk' = [wk EXCEPT ![w] =
                [@ EXCEPT !.pc = "idle", !.calls = @ + 1,
                          !.last = [returned |-> TRUE, gen |-> TRUE,
                                    kind |-> IF VerifyRaises(w)
                                             THEN "raised" ELSE "proof",
                                    proof |-> IF VerifyRaises(w)
                                              THEN NoProof ELSE wk[w].proof,
                                    made |-> wk[w].proof,
                                    buffered |-> InSeq(wk[w].proof, pushed)]]]
    /\ UNCHANGED <<server, col_requests, proof_buf, buf_lock, dr, drained,
                   lastDrain, pushed>>
    /\ UNCHANGED notServer

\* drain_proofs, entering the lock
DrainAcquire ==
    /\ server.built
    /\ dr.pc = "idle"
    /\ dr.calls < MaxDrains
    /\ BufLockFree
    /\ buf_lock' = Drainer
    /\ dr' = [dr EXCEPT !.pc = "copy"]
    /\ UNCHANGED <<server, col_requests, proof_buf, wk, drained, lastDrain,
                   pushed>>
    /\ UNCHANGED notServer

\* drain_proofs: the buffer's content is taken
DrainCopy ==
    /\ dr.pc = "copy"
    /\ dr' = [dr EXCEPT !.pc = "clear", !.copy = proof_buf]
    /\ UNCHANGED <<server, col_requests, proof_buf, buf_lock, wk, drained,
                   lastDrain, pushed>>
    /\ UNCHANGED notServer

\* drain_proofs: the buffer is emptied
DrainClear ==
    /\ dr.pc = "clear"
    /\ proof_buf' = <<>>
    /\ dr' = [dr EXCEPT !.pc = "release"]
    /\ UNCHANGED <<server, col_requests, buf_lock, wk, drained, lastDrain,
                   pushed>>
    /\ UNCHANGED notServer

\* drain_proofs: the lock is released and the copy returned
DrainReturn ==
    /\ dr.pc = "release"
    /\ buf_lock' = IF buf_lock = Drainer THEN 0 ELSE buf_lock
    /\ drained' = drained \o dr.copy
    /\ lastDrain' = [made |-> TRUE, got |-> dr.copy, left |-> proof_buf]
    /\ dr' = [pc |-> "idle", calls |-> dr.calls + 1, copy |-> <<>>]
    /\ UNCHANGED <<server, col_requests, proof_buf, wk, pushed>>
    /\ UNCHANGED notServer

ServerInit ==
    /\ server = [built |-> FALSE, verify_on_chain |-> FALSE]
    /\ col_requests = 0
    /\ proof_buf = <<>>
    /\ buf_lock = 0
    /\ wk = [w \in Handlers |-> IdleHandler]
    /\ dr = [pc |-> "idle", calls |-> 0, copy |-> <<>>]
    /\ drained = <<>>
    /\ lastDrain = [made |-> FALSE, got |-> <<>>, left |-> <<>>]
    /\ pushed = <<>>

ServerNext ==
    \/ \E v \in BOOLEAN : PlumiseServer(v)
    \/ \E w \in Handlers, gen \in BOOLEAN : RecInfMetrics(w, gen)
    \/ \E w \in Handlers : RecInfGenerate(w)
    \/ \E w \in Handlers : RecordProofAcquire(w)
    \/ \E w \in Handlers : RecordProofAppend(w)
    \/ \E w \in Handlers : RecInfReturn(w)
    \/ DrainAcquire
    \/ DrainCopy
    \/ DrainClear
    \/ DrainReturn

-----------------------------------------------------------------------------
(***************************************************************************)
(* PlumiseServer.start and _shutdown (plumise_server.py:86-140, 432-459)   *)
(*                                                                         *)
(* One event loop thread runs four coroutines: start() itself and the      *)
(* tasks of _report_loop, _heartbeat_loop and _reward_check_loop.  An      *)
(* action is the run of one of them from one await to the next.  A second  *)
(* thread is the worker of run_in_executor, a third the inference server.  *)
(* Task.cancel() marks the task and queues its wake-up; the loop runs what *)
(* is queued in order, so a task cancelled by a coroutine has ended before *)
(* that coroutine is resumed from its next await.                          *)
(***************************************************************************)

\* a task: where it is suspended, whether cancel() was called on it,
\* whether its latest iteration ended in an exception, what ended it
NoTask == [st |-> "none", cancel |-> FALSE, raised |-> FALSE,
           endedBy |-> "none"]

Sleeping == [st |-> "sleep", cancel |-> FALSE, raised |-> FALSE,
             endedBy |-> "none"]

EndedBy(t, why) == [st |-> "done", cancel |-> FALSE, raised |-> t.raised,
                    endedBy |-> why]

\* reporter.py:109-111, plumise_server.py:336-337 and 351-352: "except
\* Exception" closes the body of each loop
\* (_Uncaught: the exception leaving the loop)
IterationCaught_Uncaught(res) == res # "raise"

IterationCaught(res) == TRUE

\* the task after an iteration that ended as res, "while" tested on running
AfterIteration(t, res, running) ==
    IF ~IterationCaught(res) THEN EndedBy([t EXCEPT !.raised = TRUE], "exception")
    ELSE IF running
         THEN [st |-> "sleep", cancel |-> FALSE, raised |-> res = "raise",
               endedBy |-> "none"]
         ELSE EndedBy([t EXCEPT !.raised = res = "raise"], "not_running")

TaskAlive(t) == t.st \in {"sleep", "send", "executor"}

\* Task.cancel(): a task that has not finished is marked
Cancel(t) == IF TaskAlive(t) THEN [t EXCEPT !.cancel = TRUE] ELSE t

LedgerCall(op, thread) == [op |-> op, thread |-> thread]

\* the event loop is open while start() has not returned
LoopOpen == mainPc \notin {"new", "returned", "lone_post", "lone_done"}

\* a callback queued from another thread without waking the loop is run the
\* next time the loop runs anything
LoopRan(ev) ==
    IF ev.wake = "unnotified" THEN [ev EXCEPT !.wake = "ready"] ELSE ev

\* asyncio.Event.set() is not thread-safe.  Called on a thread other than
\* the loop's while start() waits, the waiter's wake-up is queued without
\* waking the loop ("unnotified"), or it never happens ("lost"): set() ran
\* between the waiter's test of the value and its joining the waiters, or
\* the loop refused a call from a foreign thread
ForeignSetOutcomes == {"unnotified", "lost"}

\* reporter.py:194-195: "except Exception" around the final report
\* (_Propagates: the exception of _send_report leaving send_final_report)
FinalReportRaises_Propagates(res) == res = "raise"

FinalReportRaises(res) == FALSE

NoFinal == [st |-> "none", posts |-> 0, carried |-> 0, had |-> 0,
            loopAlive |-> FALSE, loopSending |-> FALSE, raised |-> FALSE,
            res |-> "none"]

\* reporter.py:189-191: snapshot, drain_proofs and _send_report up to its POST
\* loop: the task of the report loop at that moment
FinalReportBegun(loop) ==
    [st |-> "post", posts |-> final.posts + 1, carried |-> pending_proofs,
     had |-> pending_proofs, loopAlive |-> TaskAlive(loop),
     loopSending |-> loop.st = "send", raised |-> FALSE,
     res |-> "none"]

\* reporter.py:191-195: the POST has come back or _send_report has raised
FinalReportEnded(res) ==
    [final EXCEPT !.st = "done", !.res = res,
                  !.raised = FinalReportRaises(res)]

\* ---- start(): plumise_server.py:86-140 ----

\* plumise_server.py:112, 142-172: the Identity reads, called directly
PreflightChecks ==
    /\ mainPc = "new"
    /\ mainPc' = "petals"
    /\ ledgerCalls' = ledgerCalls \cup {LedgerCall("preflight", "loop")}
    /\ UNCHANGED <<srv_running, shutdown_event, petals, reporter_running,
                   report_loop, heartbeat_task, reward_task, executor,
                   pending_proofs, final, lateTx>>
    /\ UNCHANGED notLifecycle

\* plumise_server.py:115-118, 201-316: the inference and API threads
StartThreads ==
    /\ mainPc = "petals"
    /\ mainPc' = "register"
    /\ petals' = "running"
    /\ UNCHANGED <<srv_running, shutdown_event, reporter_running,
                   report_loop, heartbeat_task, reward_task, executor,
                   pending_proofs, final, ledgerCalls, lateTx>>
    /\ UNCHANGED notLifecycle

\* plumise_server.py:121, 174-199: agent.register handed to the executor
RegisterBegin ==
    /\ mainPc = "register"
    /\ mainPc' = "register_await"
    /\ executor' = "register"
    /\ UNCHANGED <<srv_running, shutdown_event, petals, reporter_running,
                   report_loop, heartbeat_task, reward_task, pending_proofs,
                   final, ledgerCalls, lateTx>>
    /\ UNCHANGED notLifecycle

\* the worker thread runs agent.register
WorkerRegister ==
    /\ executor = "register"
    /\ executor' = "idle"
    /\ ledgerCalls' = ledgerCalls \cup {LedgerCall("register", "worker")}
    /\ UNCHANGED <<mainPc, srv_running, shutdown_event, petals,
                   reporter_running, report_loop, heartbeat_task,
                   reward_task, pending_proofs, final, lateTx>>
    /\ UNCHANGED notLifecycle

\* plumise_server.py:137-140 and 432-438: the finally block and _shutdown up
\* to the POST of the final report
EnterShutdown ==
    /\ heartbeat_task' = Cancel(heartbeat_task)
    /\ reward_task' = Cancel(reward_task)
    /\ srv_running' = FALSE
    /\ final' = FinalReportBegun(report_loop)
    /\ pending_proofs' = 0
    /\ mainPc' = "final_post"

\* plumise_server.py:124-136: _running, reporter.start, the two tasks and
\* the wait for the shutdown event, which returns at once when it is set
StartRunning ==
    /\ mainPc = "register_await"
    /\ executor = "idle"
    /\ reporter_running' = TRUE
    /\ report_loop' = Sleeping
    /\ IF shutdown_event.value
       THEN /\ heartbeat_task' = Cancel(Sleeping)
            /\ reward_task' = Cancel(Sleeping)
            /\ srv_running' = FALSE
            /\ final' = FinalReportBegun(Sleeping)
            /\ pending_proofs' = 0
            /\ mainPc' = "final_post"
       ELSE /\ heartbeat_task' = Sleeping
            /\ reward_task' = Sleeping
            /\ srv_running' = TRUE
            /\ mainPc' = "wait"
            /\ UNCHANGED <<final, pending_proofs>>
    /\ UNCHANGED <<shutdown_event, petals, executor, ledgerCalls, lateTx>>
    /\ UNCHANGED notLifecycle

\* plumise_server.py:136-140: the waiter of the event is woken
WaitResume ==
    /\ mainPc = "wait"
    /\ shutdown_event.wake = "ready"
    /\ EnterShutdown
    /\ shutdown_event' = [shutdown_event EXCEPT !.wake = "done"]
    /\ UNCHANGED <<petals, reporter_running, report_loop, executor,
                   ledgerCalls, lateTx>>
    /\ UNCHANGED notLifecycle

\* plumise_server.py:438-439 and reporter.py:69-75: send_final_report comes
\* back, reporter.stop() runs up to "await self._task"
FinalReportDone(res) ==
    /\ mainPc = "final_post"
    /\ ~heartbeat_task.cancel /\ ~reward_task.cancel
    /\ final' = FinalReportEnded(res)
    /\ reporter_running' = FALSE
    /\ report_loop' = Cancel(report_loop)
    /\ mainPc' = "stop_await"
    /\ shutdown_event' = LoopRan(shutdown_event)
    /\ UNCHANGED <<srv_running, petals, heartbeat_task, reward_task,
                   executor, pending_proofs, ledgerCalls, lateTx>>
    /\ UNCHANGED notLifecycle

\* reporter.py:75-79 and plumise_server.py:441-455: the report loop has
\* ended; the last snapshot and rewards.summary(), then start() returns
StopAwaited ==
    /\ mainPc = "stop_await"
    /\ ~TaskAlive(report_loop)
    /\ mainPc' = "returned"
    /\ ledgerCalls' = ledgerCalls \cup {LedgerCall("summary", "loop")}
    /\ UNCHANGED <<srv_running, shutdown_event, petals, reporter_running,
                   report_loop, heartbeat_task, reward_task, executor,
                   pending_proofs, final, lateTx>>
    /\ UNCHANGED notLifecycle

\* ---- a lone send_final_report on a reporter that was never started ----

\* reporter.py:187-191 (tests/test_reporter.py:154-173)
LoneFinalReport ==
    /\ mainPc = "new"
    /\ mainPc' = "lone_post"
    /\ final' = FinalReportBegun(report_loop)
    /\ pending_proofs' = 0
    /\ UNCHANGED <<srv_running, shutdown_event, petals, reporter_running,
                   report_loop, heartbeat_task, reward_task, executor,
                   ledgerCalls, lateTx>>
    /\ UNCHANGED notLifecycle

LoneFinalReportDone(res) ==
    /\ mainPc = "lone_post"
    /\ mainPc' = "lone_done"
    /\ final' = FinalReportEnded(res)
    /\ UNCHANGED <<srv_running, shutdown_event, petals, reporter_running,
                   report_loop, heartbeat_task, reward_task, executor,
                   pending_proofs, ledgerCalls, lateTx>>
    /\ UNCHANGED notLifecycle

\* ---- _report_loop: reporter.py:85-111 ----

\* reporter.py:89-95: the sleep is over; snapshot, drain, POST begun
ReportWake ==
    /\ LoopOpen
    /\ report_loop.st = "sleep" /\ ~report_loop.cancel
    /\ IF reporter_running
       THEN /\ report_loop' = [report_loop EXCEPT !.st = "send"]
            /\ pending_proofs' = 0
       ELSE /\ report_loop' = EndedBy(report_loop, "not_running")
            /\ UNCHANGED pending_proofs
    /\ shutdown_event' = LoopRan(shutdown_event)
    /\ UNCHANGED <<mainPc, srv_running, petals, reporter_running,
                   heartbeat_task, reward_task, executor, final,
                   ledgerCalls, lateTx>>
    /\ UNCHANGED notLifecycle

\* reporter.py:95-111 and 87: the POST has come back
ReportSent(res) ==
    /\ LoopOpen
    /\ report_loop.st = "send" /\ ~report_loop.cancel
    /\ report_loop' = AfterIteration(report_loop, res, reporter_running)
    /\ shutdown_event' = LoopRan(shutdown_event)
    /\ UNCHANGED <<mainPc, srv_running, petals, reporter_running,
                   heartbeat_task, reward_task, executor, pending_proofs,
                   final, ledgerCalls, lateTx>>
    /\ UNCHANGED notLifecycle

\* reporter.py:107-108: CancelledError ends the loop
ReportCancelled ==
    /\ LoopOpen
    /\ TaskAlive(report_loop) /\ report_loop.cancel
    /\ report_loop' = EndedBy(report_loop, "cancel")
    /\ shutdown_event' = LoopRan(shutdown_event)
    /\ UNCHANGED <<mainPc, srv_running, petals, reporter_running,
                   heartbeat_task, reward_task, executor, pending_proofs,
                   final, ledgerCalls, lateTx>>
    /\ UNCHANGED notLifecycle

\* ---- _heartbeat_loop: plumise_server.py:318-337 ----

\* plumise_server.py:322-324: the sleep is over; agent.heartbeat is handed
\* to the executor and awaited
HeartbeatWake ==
    /\ LoopOpen
    /\ heartbeat_task.st = "sleep" /\ ~heartbeat_task.cancel
    /\ executor = "idle"
    /\ heartbeat_task' = [heartbeat_task EXCEPT !.st = "executor"]
    /\ executor' = "heartbeat"
    /\ shutdown_event' = LoopRan(shutdown_event)
    /\ UNCHANGED <<mainPc, srv_running, petals, reporter_running,
                   report_loop, reward_task, pending_proofs, final,
                   ledgerCalls, lateTx>>
    /\ UNCHANGED notLifecycle

\* the worker thread runs agent.heartbeat: it submits the transaction
\* whatever has become of the task that awaited it
WorkerHeartbeat ==
    /\ executor = "heartbeat"
    /\ executor' = "idle"
    /\ ledgerCalls' = ledgerCalls \cup {LedgerCall("heartbeat", "worker")}
    /\ lateTx' = (lateTx \/ mainPc = "returned")
    /\ UNCHANGED <<mainPc, srv_running, shutdown_event, petals,
                   reporter_running, report_loop, heartbeat_task,
                   reward_task, pending_proofs, final>>
    /\ UNCHANGED notLifecycle

\* plumise_server.py:324-333 and 320: the executor's future is done
HeartbeatResume(res) ==
    /\ LoopOpen
    /\ heartbeat_task.st = "executor" /\ ~heartbeat_task.cancel
    /\ executor = "idle"
    /\ heartbeat_task' = AfterIteration(heartbeat_task, res, srv_running)
    /\ shutdown_event' = LoopRan(shutdown_event)
    /\ UNCHANGED <<mainPc, srv_running, petals, reporter_running,
                   report_loop, reward_task, executor, pending_proofs,
                   final, ledgerCalls, lateTx>>
    /\ UNCHANGED notLifecycle

\* plumise_server.py:334-335: CancelledError ends the loop; a call already
\* running in the worker thread is not stopped
HeartbeatCancelled ==
    /\ LoopOpen
    /\ TaskAlive(heartbeat_task) /\ heartbeat_task.cancel
    /\ heartbeat_task' = EndedBy(heartbeat_task, "cancel")
    /\ shutdown_event' = LoopRan(shutdown_event)
    /\ UNCHANGED <<mainPc, srv_running, petals, reporter_running,
                   report_loop, reward_task, executor, pending_proofs,
                   final, ledgerCalls, lateTx>>
    /\ UNCHANGED notLifecycle

\* ---- _reward_check_loop: plumise_server.py:339-352 ----

\* plumise_server.py:345-348 and 342: the sleep is over and
\* self.rewards.claim_if_ready() is called where the coroutine runs
RewardWake(res) ==
    /\ LoopOpen
    /\ reward_task.st = "sleep" /\ ~reward_task.cancel
    /\ ledgerCalls' = ledgerCalls \cup {LedgerCall("claim", "loop")}
    /\ reward_task' = AfterIteration(reward_task, res, srv_running)
    /\ shutdown_event' = LoopRan(shutdown_event)
    /\ UNCHANGED <<mainPc, srv_running, petals, reporter_running,
                   report_loop, heartbeat_task, executor, pending_proofs,
                   final, lateTx>>
    /\ UNCHANGED notLifecycle

\* plumise_server.py:349-350
RewardCancelled ==
    /\ LoopOpen
    /\ TaskAlive(reward_task) /\ reward_task.cancel
    /\ reward_task' = EndedBy(reward_task, "cancel")
    /\ shutdown_event' = LoopRan(shutdown_event)
    /\ UNCHANGED <<mainPc, srv_running, petals, reporter_running,
                   report_loop, heartbeat_task, executor, pending_proofs,
                   final, ledgerCalls, lateTx>>
    /\ UNCHANGED notLifecycle

\* ---- request_shutdown(): plumise_server.py:457-459 ----

\* Event.set(): the value, and the wake-up of a waiter
EventSet(ev, wake) ==
    IF ev.value THEN ev
    ELSE [value |-> TRUE,
          wake |-> IF mainPc = "wait" THEN wake ELSE ev.wake]

\* plumise_server.py:486-489: the signal handler, run by the event loop
SignalShutdown ==
    /\ LoopOpen
    /\ ~shutdown_event.value
    /\ shutdown_event' = EventSet(shutdown_event, "ready")
    /\ UNCHANGED <<mainPc, srv_running, petals, reporter_running,
                   report_loop, heartbeat_task, reward_task, executor,
                   pending_proofs, final, ledgerCalls, lateTx>>
    /\ UNCHANGED notLifecycle

\* plumise_server.py:258-260: the inference server failed; its thread calls
\* request_shutdown()
PetalsFailure(outcome) ==
    /\ petals = "running"
    /\ petals' = "failed"
    /\ shutdown_event' = EventSet(shutdown_event, outcome)
    /\ UNCHANGED <<mainPc, srv_running, reporter_running, report_loop,
                   heartbeat_task, reward_task, executor, pending_proofs,
                   final, ledgerCalls, lateTx>>
    /\ UNCHANGED notLifecycle

\* plumise_server.py:396: a handler thread buffers a proof
ProofBuffered ==
    /\ pending_proofs < MaxBuffered
    /\ pending_proofs' = pending_proofs + 1
    /\ UNCHANGED <<mainPc, srv_running, shutdown_event, petals,
                   reporter_running, report_loop, heartbeat_task,
                   reward_task, executor, final, ledgerCalls, lateTx>>
    /\ UNCHANGED notLifecycle

\* PlumiseServer.__init__: plumise_server.py:44-84
LifecycleInit ==
    /\ mainPc = "new"
    /\ srv_running = FALSE
    /\ shutdown_event = [value |-> FALSE, wake |-> "none"]
    /\ petals = "none"
    /\ reporter_running = FALSE
    /\ report_loop = NoTask
    /\ heartbeat_task = NoTask
    /\ reward_task = NoTask
    /\ executor = "idle"
    /\ pending_proofs = 0
    /\ final = NoFinal
    /\ ledgerCalls = {}
    /\ lateTx = FALSE

LifecycleNext ==
    \/ PreflightChecks
    \/ StartThreads
    \/ RegisterBegin
    \/ WorkerRegister
    \/ StartRunning
    \/ WaitResume
    \/ \E res \in CycleResults : FinalReportDone(res)
    \/ StopAwaited
    \/ LoneFinalReport
    \/ \E res \in CycleResults : LoneFinalReportDone(res)
    \/ ReportWake
    \/ \E res \in CycleResults : ReportSent(res)
    \/ ReportCancelled
    \/ HeartbeatWake
    \/ WorkerHeartbeat
    \/ \E res \in CycleResults : HeartbeatResume(res)
    \/ HeartbeatCancelled
    \/ \E res \in CycleResults : RewardWake(res)
    \/ RewardCancelled
    \/ SignalShutdown
    \/ \E outcome \in ForeignSetOutcomes : PetalsFailure(outcome)
    \/ ProofBuffered

-----------------------------------------------------------------------------
(* ChainAgent.register() step by step, called from several threads          *)
(* (chain/agent.py:73-132).  The capabilities are valid; each ledger call   *)
(* is one step, and the threads interleave between the steps.               *)

RegThreads == {1, 2}

NotReturned == "none"

RegIdle == [pc |-> "idle", nonce |-> 0, calls |-> 0, ret |-> NotReturned]

RegCallsMade == reg_thread[1].calls + reg_thread[2].calls

\* agent.py:73-96: the test of _registration_attempted, then the call data
RegisterEnter(t) ==
    /\ reg_thread[t].pc = "idle"
    /\ RegCallsMade < MaxRegisterCalls
    /\ IF reg_attempted
       THEN reg_thread' = [reg_thread EXCEPT ![t].calls = @ + 1,
                                             ![t].ret = reg_registered]
       ELSE reg_thread' = [reg_thread EXCEPT ![t].calls = @ + 1,
                                             ![t].pc = "build",
                                             ![t].ret = NotReturned]
    /\ UNCHANGED <<reg_attempted, reg_registered, reg_mined, reg_pool, reg_accepted>>
    /\ UNCHANGED notRegistrar

\* agent.py:129-132: except Exception records the attempt and returns False
RegisterFailed(t) ==
    /\ reg_attempted' = TRUE
    /\ reg_thread' = [reg_thread EXCEPT ![t].pc = "idle", ![t].ret = FALSE]
    /\ UNCHANGED reg_registered

\* agent.py:96: nonce = get_transaction_count(address)
RegisterReadNonce(t, ok) ==
    /\ reg_thread[t].pc = "build"
    /\ IF ok
       THEN /\ reg_thread' = [reg_thread EXCEPT ![t].pc = "sign",
                                                ![t].nonce = RegisterNonce(reg_mined)]
            /\ UNCHANGED <<reg_attempted, reg_registered>>
       ELSE RegisterFailed(t)
    /\ UNCHANGED <<reg_mined, reg_pool, reg_accepted>>
    /\ UNCHANGED notRegistrar

\* the node takes a transaction whose nonce is the next one and that does
\* not replace, at the same price, one it already holds
NodeAccepts(nonce) == nonce >= reg_mined /\ nonce \notin reg_pool

\* agent.py:111-112: sign_transaction, send_raw_transaction
RegisterSend(t, ok) ==
    /\ reg_thread[t].pc = "sign"
    /\ IF ok /\ NodeAccepts(reg_thread[t].nonce)
       THEN /\ reg_thread' = [reg_thread EXCEPT ![t].pc = "wait"]
            /\ reg_pool' = reg_pool \cup {reg_thread[t].nonce}
            /\ reg_accepted' = reg_accepted + 1
            /\ UNCHANGED <<reg_attempted, reg_registered>>
       ELSE /\ RegisterFailed(t)
            /\ UNCHANGED <<reg_pool, reg_accepted>>
    /\ UNCHANGED reg_mined
    /\ UNCHANGED notRegistrar

ReceiptOutcomes == {"status1", "status0", "wait_err"}

\* agent.py:117-127: wait_for_transaction_receipt, then the two flags
RegisterReceipt(t, out) ==
    /\ reg_thread[t].pc = "wait"
    /\ out # "wait_err" => reg_thread[t].nonce < reg_mined
    /\ reg_registered' = (reg_registered \/ out = "status1")
    /\ reg_attempted' = TRUE
    /\ reg_thread' = [reg_thread EXCEPT ![t].pc = "idle",
                                        ![t].ret = out = "status1"]
    /\ UNCHANGED <<reg_mined, reg_pool, reg_accepted>>
    /\ UNCHANGED notRegistrar

\* the ledger mines the next transaction of the account
RegistrationMined ==
    /\ reg_mined \in reg_pool
    /\ reg_pool' = reg_pool \ {reg_mined}
    /\ reg_mined' = reg_mined + 1
    /\ UNCHANGED <<reg_attempted, reg_registered, reg_thread, reg_accepted>>
    /\ UNCHANGED notRegistrar

RegistrarInit ==
    /\ reg_attempted = FALSE
    /\ reg_registered = FALSE
    /\ reg_thread = [t \in RegThreads |-> RegIdle]
    /\ reg_mined = 0
    /\ reg_pool = {}
    /\ reg_accepted = 0

RegistrarNext ==
    \/ \E t \in RegThreads : RegisterEnter(t)
    \/ \E t \in RegThreads, ok \in BOOLEAN : RegisterReadNonce(t, ok)
    \/ \E t \in RegThreads, ok \in BOOLEAN : RegisterSend(t, ok)
    \/ \E t \in RegThreads, out \in ReceiptOutcomes : RegisterReceipt(t, out)
    \/ RegistrationMined

-----------------------------------------------------------------------------
(***************************************************************************)
(* The reporting pipeline                                                  *)
(*                                                                         *)
(* Handler threads run PlumiseServer.record_inference                      *)
(* (plumise_server.py:381-396): the counters, then the proof into the      *)
(* buffer.  On the event loop the report loop and send_final_report take   *)
(* a snapshot, drain the buffer and hand both to _send_report              *)
(* (reporter.py:93-95, 189-191).  Snapshot and drain are two calls, each   *)
(* atomic under the collector's lock, and handler threads run between      *)
(* them.  The n-th request counted is request n, and so is its proof.      *)
(***************************************************************************)

Reporters == {"loop", "final"}

NothingTaken == [who |-> "none", tokens |-> 0, requests |-> 0]

Counters(tokens, requests) == [tokens |-> tokens, requests |-> requests]

\* plumise_server.py:382 and metrics.py:74-84: the counters, under the lock
PipeRecordMetrics(w, tokens) ==
    /\ handling[w] = 0
    /\ counted.requests < MaxInferences
    /\ counted' = Counters(counted.tokens + tokens, counted.requests + 1)
    /\ recorded' = Counters(recorded.tokens + tokens, recorded.requests + 1)
    /\ handling' = [handling EXCEPT ![w] = counted.requests + 1]
    /\ UNCHANGED <<buffered, taken, reports, final_sent, generated>>
    /\ UNCHANGED notPipeline

\* plumise_server.py:385-396: generate_proof, then record_proof appends the
\* proof; a proof that could not be generated is not buffered
PipeRecordProof(w, ok) ==
    /\ handling[w] # 0
    /\ handling' = [handling EXCEPT ![w] = 0]
    /\ IF ok
       THEN /\ buffered' = Append(buffered, handling[w])
            /\ generated' = generated \cup {handling[w]}
       ELSE UNCHANGED <<buffered, generated>>
    /\ UNCHANGED <<counted, taken, reports, final_sent, recorded>>
    /\ UNCHANGED notPipeline

\* metrics.py:86-98: get_snapshot() copies the counters and leaves them
\* (_Resets: the counters zeroed as reset() zeroes them, metrics.py:100-115)
AfterSnapshot_Resets(c) == Counters(0, 0)

AfterSnapshot(c) == c

\* a report is being sent
Pending(who) ==
    \E i \in 1 .. Len(reports) :
        reports[i].who = who /\ reports[i].res = "pending"

\* reporter.py:87-93 and 189-190: the loop, its sleep over, or
\* send_final_report takes the snapshot
PipeSnapshot(who) ==
    /\ taken.who = "none"
    /\ Len(reports) < MaxReports
    /\ who = "loop" => ~Pending("loop") /\ ~final_sent
    /\ who = "final" => ~final_sent
    /\ taken' = [who |-> who, tokens |-> counted.tokens,
                 requests |-> counted.requests]
    /\ counted' = AfterSnapshot(counted)
    /\ final_sent' = (final_sent \/ who = "final")
    /\ UNCHANGED <<buffered, handling, reports, recorded, generated>>
    /\ UNCHANGED notPipeline

\* MetricsCollector.drain_proofs(): the buffer it leaves, having returned
\* all the buffer held
AfterDrain(buf) == <<>>

\* reporter.py:94-95 and 191: drain_proofs(), then _send_report is called
\* with the snapshot and the proofs
PipeDrain ==
    /\ taken.who # "none"
    /\ reports' = Append(reports, [who |-> taken.who, tokens |-> taken.tokens,
                                   tasks |-> taken.requests,
                                   proofs |-> buffered, res |-> "pending"])
    /\ buffered' = AfterDrain(buffered)
    /\ taken' = NothingTaken
    /\ UNCHANGED <<counted, handling, final_sent, recorded, generated>>
    /\ UNCHANGED notPipeline

\* reporter.py:95-111 and 191-195: what becomes of a report whose
\* _send_report returned True, returned False or raised: in the last two
\* cases it is logged and counted, and the proofs it carried are dropped
Outcome(res) == IF res = "success" THEN "success" ELSE "dropped"

\* reporter.py:95-111 and 191-195: _send_report has returned or raised
PipeSendDone(i, res) ==
    /\ i \in 1 .. Len(reports)
    /\ reports[i].res = "pending"
    /\ reports' = [reports EXCEPT ![i].res = Outcome(res)]
    /\ UNCHANGED <<counted, buffered, handling, taken, final_sent, recorded,
                   generated>>
    /\ UNCHANGED notPipeline

PipelineInit ==
    /\ counted = Counters(0, 0)
    /\ buffered = <<>>
    /\ handling = [w \in Handlers |-> 0]
    /\ taken = NothingTaken
    /\ reports = <<>>
    /\ final_sent = FALSE
    /\ recorded = Counters(0, 0)
    /\ generated = {}

PipelineNext ==
    \/ \E w \in Handlers, n \in TokenCounts : PipeRecordMetrics(w, n)
    \/ \E w \in Handlers, ok \in BOOLEAN : PipeRecordProof(w, ok)
    \/ \E who \in Reporters : PipeSnapshot(who)
    \/ PipeDrain
    \/ \E i \in 1 .. MaxReports, res \in CycleResults : PipeSendDone(i, res)

-----------------------------------------------------------------------------
(* Specifications *)

Init == AgentInit /\ MetricsInit /\ ReporterInit /\ SendInit /\ RewardsInit /\ ProofInit /\ AuthInit /\ ServerInit /\ LifecycleInit /\ RegistrarInit /\ PipelineInit

SpecAgent == Init /\ [][AgentNext]_vars

SpecMetrics == Init /\ [][MetricsNext]_vars

SpecReporter == Init /\ [][ReporterNext]_vars

SpecReporterConcurrent == Init /\ [][ReporterConcurrentNext]_vars

SpecSend == Init /\ [][SendNext]_vars

SpecRewards == Init /\ [][RewardsNext]_vars

SpecProof == Init /\ [][ProofNext]_vars

SpecAuth == Init /\ [][AuthNext]_vars

SpecServer == Init /\ [][ServerNext]_vars

SpecLifecycle == Init /\ [][LifecycleNext]_vars

SpecRegistrar == Init /\ [][RegistrarNext]_vars

SpecPipeline == Init /\ [][PipelineNext]_vars

-----------------------------------------------------------------------------
(***************************************************************************)
(* ChainAgent: properties                                                  *)
(***************************************************************************)

\* C1: over any sequence of register() calls at most one registration
\* transaction is handed to send_raw_transaction, and every register() call
\* that returns, returns what the first attempt returned (True after a
\* receipt with status 1, False after status 0 or an exception).
C1_RegisterAtMostOnce ==
    /\ regSends <= 1
    /\ \A i \in 1..Len(regReturns) : regReturns[i] = regReturns[1]

\* C1 witness: three register() calls have returned, the first one submitted
\* its transaction and failed, and the later ones returned without sending.
C1_Witness ==
    /\ Len(regReturns) >= 3
    /\ regSends = 1
    /\ regReturns[1] = FALSE
    /\ lastCall.op = "register" /\ lastCall.steps = {}

\* C2: every register() call whose capability list holds an element that is
\* not 32 bytes long raises to the caller, whatever calls preceded it, and
\* has made no ledger call.
C2_BadCapsAlwaysRaise ==
    (lastCall.op = "register" /\ lastCall.badCaps)
        => (lastCall.raised /\ lastCall.steps = {})

C14_ReceiptDecides ==
    /\ lastCall.steps # {} =>
          /\ ~lastCall.raised
          /\ lastCall.ret <=> lastCall.receipt = "status1"
    /\ lastCall.op = "heartbeat" => lastCall.steps # {}
    /\ (lastCall.op = "register" /\ lastCall.steps = {} /\ ~lastCall.raised)
          => (regReturns # <<>> /\ lastCall.ret = regReturns[1])
    /\ registered <=> (regReturns # <<>> /\ regReturns[1])
    /\ registered => regSends = 1

\* C14 witness: after a registration whose receipt had status 1, a heartbeat
\* whose receipt wait timed out has returned False.
C14_Witness ==
    /\ registered /\ regReturns = <<TRUE>>
    /\ lastCall.op = "heartbeat" /\ "wait" \in lastCall.steps
    /\ lastCall.receipt = "none" /\ ~lastCall.ret /\ ~lastCall.raised

-----------------------------------------------------------------------------
(***************************************************************************)
(* MetricsCollector: properties                                            *)
(***************************************************************************)

AllRecords == NumThreads * RecordsPerThread

Quiescent == \A t \in Threads : pc[t] = "idle"

\* C4: no increment is lost.  Whenever no call is in progress and no reset
\* has run, the live totals are those of the completed record_inference
\* calls; and a snapshot taken after all T threads have returned from their
\* R calls shows total_requests = T*R and the tokens of all of them (T*R
\* when every call recorded one token).
C4_NoLostUpdate ==
    /\ (Quiescent /\ ~wasReset) =>
          /\ Live.total_requests = Completed
          /\ TotalsOf(Live) = since
    /\ (held.by = "get_snapshot" /\ ~held.resetBefore
            /\ held.recordsBefore = AllRecords) =>
          /\ held.val.total_requests = AllRecords
          /\ held.val.total_tokens_processed = held.expect.total_tokens_processed
          /\ held.val.total_latency_ms = held.expect.total_latency_ms

\* C4 witness: every thread has returned from R calls of record(1, 1) and the
\* snapshot taken afterwards shows T*R requests and T*R tokens.
C4_Witness ==
    /\ \A t \in Threads : done[t] = RecordsPerThread
    /\ held.by = "get_snapshot" /\ ~held.resetBefore
    /\ held.recordsBefore = AllRecords
    /\ held.val.total_requests = AllRecords
    /\ held.val.total_tokens_processed = AllRecords

\* C5: reset() returns the totals accumulated since the previous reset (with
\* the collector's start_time), and a snapshot taken right after a reset,
\* before any further record, shows the three counters zero and the
\* start_time the collector was built with.
C5_ResetReturnsAndZeroes ==
    /\ held.by = "reset" =>
          /\ TotalsOf(held.val) = held.expect
          /\ held.val.start_time = StartTime
    /\ (held.by = "get_snapshot" /\ held.resetBefore
            /\ held.expect = Totals(0, 0, 0)) =>
          /\ TotalsOf(held.val) = Totals(0, 0, 0)
          /\ held.val.start_time = StartTime

\* C5 witness: records were made, reset() ran, and the snapshot taken right
\* after it is all zero.
C5_Witness ==
    /\ held.by = "get_snapshot" /\ held.resetBefore
    /\ held.expect = Totals(0, 0, 0)
    /\ held.recordsBefore >= 2
    /\ TotalsOf(held.val) = Totals(0, 0, 0)

\* C6: the snapshot a caller was handed by get_snapshot() or reset() keeps
\* the field values it was returned with, whatever record_inference or reset
\* calls run later.
C6_SnapshotDetached ==
    held.by # "none" => heap[held.ref] = held.val

\* C6 witness: a snapshot was returned by get_snapshot(), a later
\* record_inference has completed, and the live totals have moved on.
C6_Witness ==
    /\ held.by = "get_snapshot"
    /\ Quiescent
    /\ Live.total_requests > held.val.total_requests
    /\ heap[held.ref] = held.val

-----------------------------------------------------------------------------
(***************************************************************************)
(* OracleReporter: properties                                              *)
(***************************************************************************)

LiveLoops == {k \in TaskIds : Alive(k)}

\* C7: start() on a Running reporter is a no-op: it creates no task and
\* leaves self._task as it was; at most one report loop exists at any time
\* and exactly one, the task self._task names, while the reporter is Running.
C7_StartIdempotent ==
    /\ (lastOp.op = "start" /\ lastOp.wasRunning) =>
          /\ rep_task = lastOp.taskBefore
          /\ Len(tasks) = lastOp.tasksBefore
    /\ Cardinality(LiveLoops) <= 1
    /\ rep_running => LiveLoops = {rep_task}

\* C7 witness: start() has just been called on a reporter whose one loop has
\* already run a cycle, and that loop is still the only one.
C7_Witness ==
    /\ lastOp.op = "start" /\ lastOp.wasRunning
    /\ Len(tasks) = 1 /\ Alive(1) /\ rep_task = 1
    /\ cycles >= 1

\* C8: when stop() has returned the reporter is Idle (_running False, _task
\* None), every report loop has terminated, the loop that was running was
\* ended by the cancellation, and no report is attempted after the return;
\* stop() without a task returns leaving the reporter Idle.
C8_StopReturnsIdle ==
    lastOp.op = "stop" =>
        /\ ~rep_running
        /\ rep_task = 0
        /\ LiveLoops = {}
        /\ attempts = lastOp.attempts
        /\ lastOp.taskBefore # 0 =>
              tasks[lastOp.taskBefore].endedBy = "cancel"

\* C8 witness: stop() has returned on a reporter whose loop had attempted
\* reports; its task was cancelled.
C8_Witness ==
    /\ lastOp.op = "stop" /\ lastOp.wasRunning
    /\ lastOp.taskBefore # 0
    /\ tasks[lastOp.taskBefore].endedBy = "cancel"
    /\ attempts >= 2

\* C9: the consecutive-failure counter equals the number of failed report
\* cycles since the most recent successful one: a failed cycle (a False
\* result or an exception) adds one, a success sets it to 0.
C9_FailureCounter ==
    consecutive_failures = failedSince

\* C9 witness: one loop has finished three cycles, the last one failed and
\* the one before it succeeded.
C9_Witness ==
    /\ Len(tasks) = 1 /\ tasks[1].st = "sleep"
    /\ cycles = 3
    /\ consecutive_failures = 1

\* C10: the failure ceiling never stops the loop: a loop task ends only by
\* the cancellation stop() requests or by seeing _running cleared, every
\* sleep that ends with _running set is followed by a report attempt, and a
\* Running reporter at or above the ceiling still has its loop.
C10_CeilingNeverStops ==
    /\ \A k \in TaskIds :
          ~Alive(k) => tasks[k].endedBy \in {"cancel", "not_running"}
    /\ attempts = wakes
    /\ (rep_running /\ consecutive_failures >= MaxFailures) =>
          (rep_task \in TaskIds /\ Alive(rep_task))

\* C10 witness: more than ten consecutive failures and the next report is in
\* flight.
C10_Witness ==
    /\ consecutive_failures > MaxFailures
    /\ rep_running /\ rep_task \in TaskIds
    /\ tasks[rep_task].st = "send"

-----------------------------------------------------------------------------
(***************************************************************************)
(* OracleReporter._send_report: properties                                 *)
(***************************************************************************)

SendIndex == 1..Len(sendCalls)

\* a response was delivered and its status is in the 2xx range
Is2xx(x) == x.net = "response" /\ x.status >= 200 /\ x.status <= 299

\* C11: _send_report returns False, without raising, for every HTTP response
\* whose status is not in the 2xx range, for every transport error and for
\* every timeout.
C11_NonSuccessIsFalse ==
    \A i \in SendIndex :
        ~Is2xx(sendCalls[i].x) => sendCalls[i].ret = "False"

-----------------------------------------------------------------------------
(***************************************************************************)
(* RewardTracker: properties                                               *)
(***************************************************************************)

RewardIndex == 1..Len(rewardCalls)

\* the pending reward a call of should_claim() obtained from
\* get_pending_reward(): the contract's value, or 0 without a contract or
\* after a failed read
PendingSeen(c) == IF pool /\ c.out = "ok" THEN c.value ELSE 0

ReadDefault(op) ==
    CASE op = "get_pending_reward" -> IntRet(0)
      [] op = "get_contribution"   -> NoneRet
      [] op = "get_current_epoch"  -> IntRet(0)

ReadOps == {"get_pending_reward", "get_contribution", "get_current_epoch"}

\* C19: get_pending_reward(), get_contribution() and get_current_epoch()
\* never raise; without a reward contract they return 0, None and 0 and make
\* no contract call, and when the contract call fails they return the same.
C19_ReadsDegrade ==
    \A i \in RewardIndex :
        LET c == rewardCalls[i]
        IN c.op \in ReadOps =>
            /\ c.ret # Raised
            /\ ~pool => c.ret = ReadDefault(c.op) /\ c.steps = {}
            /\ (pool /\ c.out # "ok") => c.ret = ReadDefault(c.op)

\* C19 witness: with a contract configured, a failed contribution read gave
\* None and a failed pending-reward read gave 0.
C19_Witness ==
    /\ pool /\ Len(rewardCalls) = 2
    /\ rewardCalls[1].op = "get_contribution" /\ rewardCalls[1].out = "malformed"
    /\ rewardCalls[1].ret = NoneRet
    /\ rewardCalls[2].op = "get_pending_reward" /\ rewardCalls[2].out = "fail"
    /\ rewardCalls[2].ret = IntRet(0)

\* C20: claim_reward() returns the transaction hash once
\* send_raw_transaction has returned it and never waits for a receipt;
\* without a reward contract it returns None, makes no ledger call and
\* submits nothing; when the nonce fetch, the build, the signing or the
\* submission raises it returns None; it never raises.
C20_ClaimFireAndForget ==
    \A i \in RewardIndex :
        LET c == rewardCalls[i]
        IN c.op = "claim_reward" =>
            /\ c.ret # Raised
            /\ "wait" \notin c.steps
            /\ ~pool => c.ret = NoneRet /\ c.steps = {}
            /\ pool => (c.ret = HashRet <=> c.out = "sent")
            /\ (pool /\ c.out # "sent") => c.ret = NoneRet
            /\ c.ret = HashRet => "send" \in c.steps

\* C20 witness: a claim whose signing failed returned None and a following
\* claim returned its hash.
C20_Witness ==
    /\ pool /\ Len(rewardCalls) = 2
    /\ rewardCalls[1].op = "claim_reward" /\ rewardCalls[1].out = "sign_err"
    /\ rewardCalls[1].ret = NoneRet
    /\ rewardCalls[2].op = "claim_reward" /\ rewardCalls[2].out = "sent"
    /\ rewardCalls[2].ret = HashRet
    /\ rewardCalls[2].steps = {"nonce", "gas", "build", "sign", "send"}

-----------------------------------------------------------------------------
(***************************************************************************)
(* InferenceProofGenerator: properties                                     *)
(***************************************************************************)

ProofIndex == 1..Len(proofCalls)

\* the four hashes of a proof
Hashes(p) == <<p.model_hash, p.input_hash, p.output_hash, p.proof_hash>>

-----------------------------------------------------------------------------
(***************************************************************************)
(* PlumiseAuth: properties                                                 *)
(***************************************************************************)

AuthIndex == 1..Len(authCalls)

Rank(k) == CHOOSE i \in DOMAIN KeyOrder : KeyOrder[i] = k

\* c is the canonical form of the dict d: compact separators, the same
\* (key, value) pairs, keys in ascending order
IsCanonicalOf(c, d) ==
    /\ c.separators = "compact"
    /\ Items(c.items) = Items(d) /\ Len(c.items) = Len(d)
    /\ \A i, j \in DOMAIN c.items :
          i < j => Rank(c.items[i][1]) < Rank(c.items[j][1])

SigningOps == {"sign_payload", "_send_report"}

\* C16: the signature sent with a report is the personal_sign signature, by
\* the agent's key, of the canonical serialization (keys sorted, compact
\* separators) of exactly the payload sent; sign_payload gives the same
\* signature for dicts with equal contents in any key order and on repeated
\* calls; the signer recovered from the signature is the agent's address.
C16_SignatureOverCanonicalPayload ==
    /\ \A i \in AuthIndex :
          LET c == authCalls[i] IN
          c.op \in SigningOps =>
              /\ c.signature.by = PrivateKey
              /\ c.signature.over.envelope = "personal_sign"
              /\ IsCanonicalOf(c.signature.over.text, c.in.dict)
              /\ Recover(c.signature.over.text, c.signature) = Address
    /\ \A i, j \in AuthIndex :
          (/\ authCalls[i].op \in SigningOps
           /\ authCalls[j].op \in SigningOps
           /\ Items(authCalls[i].in.dict) = Items(authCalls[j].in.dict))
          => authCalls[i].signature = authCalls[j].signature

\* C16 witness: a report with proofs was built, its seven keys not in sorted
\* order, and sign_payload of the same pairs in reverse order has given the
\* same signature.
C16_Witness ==
    /\ Len(authCalls) = 2
    /\ authCalls[1].op = "_send_report" /\ Len(authCalls[1].in.dict) = 7
    /\ authCalls[2].op = "sign_payload"
    /\ authCalls[2].in.dict = Reversed(authCalls[1].in.dict)
    /\ authCalls[2].in.dict # authCalls[1].in.dict
    /\ authCalls[2].signature = authCalls[1].signature
    /\ authCalls[1].signature.over.text.items # authCalls[1].in.dict

RegistryChecks == {"verify_registration", "is_active"}

\* C17: without a registry contract verify_registration() and is_active()
\* return True and get_agent_info() returns None, and none of them makes a
\* ledger call; with a registry contract whose call fails,
\* verify_registration() and is_active() return False.
C17_OptimisticWithoutRegistry ==
    \A i \in AuthIndex :
        LET c == authCalls[i] IN
        /\ (c.op \in RegistryChecks /\ ~registry)
              => (c.ret = BoolRet(TRUE) /\ c.reads = {})
        /\ (c.op = "get_agent_info" /\ ~registry)
              => (c.ret = NoneRet /\ c.reads = {})
        /\ (c.op \in RegistryChecks /\ registry /\ c.in.out # "ok")
              => c.ret = BoolRet(FALSE)

\* C17 witness: without a registry, is_active() has returned True and
\* get_agent_info() None although the ledger was failing.
C17_Witness ==
    /\ ~registry /\ Len(authCalls) = 2
    /\ authCalls[1].op = "is_active" /\ authCalls[1].in.out = "fail"
    /\ authCalls[1].ret = BoolRet(TRUE)
    /\ authCalls[2].op = "get_agent_info" /\ authCalls[2].ret = NoneRet
    /\ authCalls[2].reads = {}

\* the conservative default of each Identity read
IdentityDefault(op) ==
    CASE op = "is_chain_connected"  -> BoolRet(FALSE)
      [] op = "verify_registration" -> BoolRet(FALSE)
      [] op = "is_active"           -> BoolRet(FALSE)
      [] op = "get_agent_info"      -> NoneRet
      [] op = "get_balance"         -> IntRet(0)

IdentityReads == {"is_chain_connected", "verify_registration", "is_active",
                  "get_agent_info", "get_balance"}

\* C18: every Identity ledger read that fails returns its conservative
\* default (False / None / 0) and raises nothing; get_balance() returns 0 on
\* a failed read, and _preflight_checks cannot end in an exception.
C18_FailedReadsDegrade ==
    \A i \in AuthIndex :
        LET c == authCalls[i] IN
        /\ c.ret # Raised
        /\ (c.op \in IdentityReads /\ c.reads # {} /\ c.in.out # "ok")
              => c.ret = IdentityDefault(c.op)

-----------------------------------------------------------------------------
(* Properties of PlumiseServer.record_inference and the proof buffer *)

\* calls of record_inference that have passed the collector's counters
RecordsCounted(w) == wk[w].calls + (IF wk[w].pc = "idle" THEN 0 ELSE 1)

\* C21: every record_inference call adds the request to the collector's
\* counters, also when proof generation fails, in which case it returns
\* None; when generation succeeds the proof is in the pending buffer before
\* the call returns and the same proof is returned, with no exception.
C21_RecordInferenceReturns ==
    /\ col_requests = RecordsCounted(1) + RecordsCounted(2)
    /\ \A w \in Handlers :
          LET r == wk[w].last IN
          r.returned =>
             IF r.gen
             THEN r.kind = "proof" /\ r.proof = r.made /\ r.buffered
             ELSE r.kind = "none"

\* what a drain_proofs in progress has taken out of the buffer
Taken == IF dr.pc = "release" THEN dr.copy ELSE <<>>

\* C22: the pending-proof buffer is FIFO and drained atomically: every proof
\* pushed is returned by exactly one drain, in push order, and the buffer is
\* empty when a drain returns.
C22_BufferFifo ==
    /\ pushed = drained \o Taken \o proof_buf
    /\ \A i, j \in 1 .. Len(pushed) : pushed[i] = pushed[j] => i = j
    /\ lastDrain.made => lastDrain.left = <<>>

\* two drains, the second returning two proofs pushed by different threads
\* after the first drain returned one
C22_Witness ==
    /\ dr.calls = 2 /\ dr.pc = "idle"
    /\ Len(drained) = 3 /\ Len(lastDrain.got) = 2
    /\ lastDrain.got[1].by # lastDrain.got[2].by
    /\ proof_buf = <<>>

-----------------------------------------------------------------------------
(* Properties of the report's payload and URL *)

ValueOf(d, k) == d[Lookup(d, k)][2]

EndsWithSlash(str) == str # <<>> /\ str[Len(str)] = "/"

Slashes(n) == [i \in 1 .. n |-> "/"]

\* C24: the payload of a report is built from one snapshot:
\* processed_tokens is its total_tokens_processed, tasks_completed its
\* total_requests, agent the identity's address; the body posted is
\* {payload, signature}, to the base URL without its trailing slash
\* followed by "/api/v1/report".
C24_PayloadAndUrl ==
    posted.made =>
       /\ ValueOf(posted.body.payload, "processed_tokens") = posted.snapshot.tokens
       /\ ValueOf(posted.body.payload, "tasks_completed") = posted.snapshot.requests
       /\ ValueOf(posted.body.payload, "agent") = Address
       /\ DOMAIN posted.body = {"payload", "signature"}
       /\ posted.body.signature = sign_payload(posted.body.payload)
       /\ \E n \in 0 .. Len(posted.base) :
             LET stem == SubSeq(posted.base, 1, n) IN
             /\ ~EndsWithSlash(stem)
             /\ posted.base = stem \o Slashes(Len(posted.base) - Len(stem))
             /\ posted.url = stem \o ReportPath

\* a report of a snapshot whose two counters differ, sent by a reporter
\* built with a base URL that ends in a slash
C24_Witness ==
    /\ posted.made
    /\ posted.snapshot.tokens # posted.snapshot.requests
    /\ EndsWithSlash(posted.base)
    /\ Len(posted.url) = Len(posted.base) - 1 + Len(ReportPath)

-----------------------------------------------------------------------------
(* Properties of PlumiseServer.start and its shutdown *)

FairLifecycle ==
    /\ SpecLifecycle
    /\ WF_vars(WaitResume)
    /\ WF_vars(\E res \in CycleResults : FinalReportDone(res))
    /\ WF_vars(StopAwaited)
    /\ WF_vars(ReportWake) /\ WF_vars(ReportCancelled)
    /\ WF_vars(\E res \in CycleResults : ReportSent(res))
    /\ WF_vars(HeartbeatWake)
    /\ WF_vars(\E res \in CycleResults : HeartbeatResume(res))
    /\ WF_vars(HeartbeatCancelled) /\ WF_vars(WorkerHeartbeat)
    /\ WF_vars(\E res \in CycleResults : RewardWake(res))
    /\ WF_vars(RewardCancelled)

ShutdownSequenceRun ==
    /\ mainPc = "returned"
    /\ ~srv_running
    /\ final.st = "done"
    /\ ~reporter_running /\ ~TaskAlive(report_loop)

\* C25: after request_shutdown() has been called, from the event loop's
\* thread or from any other, while start() is waiting, start() eventually
\* runs the shutdown sequence (running flag cleared, final report attempted,
\* reporter stopped) and returns.
C25_ShutdownRuns ==
    (shutdown_event.value /\ mainPc = "wait") ~> ShutdownSequenceRun

\* C27: during shutdown no send of the report loop races the final send: the
\* loop has been cancelled and has ended before send_final_report starts.
C27_LoopEndedBeforeFinal ==
    final.st \in {"post", "done"} /\ mainPc \notin {"lone_post", "lone_done"}
        => ~final.loopAlive /\ ~(mainPc = "final_post" /\ report_loop.st = "send")

\* C28: on shutdown the heartbeat loop and the reward-check loop are
\* cancelled and awaited: when start() returns both have ended, with nothing
\* of theirs still running, and no heartbeat or claim transaction is
\* submitted after that.
C28_LoopsAwaited ==
    /\ mainPc = "returned" =>
          /\ ~TaskAlive(heartbeat_task)
          /\ ~TaskAlive(reward_task)
          /\ executor # "heartbeat"
    /\ ~lateTx

LoopOperations == {"register", "heartbeat", "claim"}

\* C29: no blocking ledger call of the registration, of the heartbeat loop
\* or of the reward-check loop runs on the event loop's thread: each runs on
\* a worker.
C29_LedgerCallsOnWorker ==
    \A c \in ledgerCalls : c.op \in LoopOperations => c.thread = "worker"

-----------------------------------------------------------------------------
(* Properties of the nonces of one process *)

\* C26: no two transactions the process submits, for register, heartbeat or
\* reward claim, are signed with the same nonce, also when an earlier claim,
\* sent without waiting for its receipt, is still unconfirmed.
C26_NoncesDistinct ==
    \A i, j \in 1 .. Len(txLog) :
        txLog[i].nonce = txLog[j].nonce => i = j

-----------------------------------------------------------------------------
(* Conservation of the collector's counters *)

\* C30: the totals returned by all reset() calls, added up, plus the live
\* totals equal the totals of all record_inference calls that have returned,
\* for tokens and for requests, whenever no call is inside the collector.
\* With R the sum of what the resets returned, F the totals recorded before
\* the latest reset and since the totals recorded after it, the equation
\* R + Live = F + since is (R - F) + Live = since, and R - F is resetDrift.
C30_CountersConserved ==
    lock = 0 =>
       /\ resetDrift.total_tokens_processed + Live.total_tokens_processed
             = since.total_tokens_processed
       /\ resetDrift.total_requests + Live.total_requests
             = since.total_requests

\* a reset has returned two records and a record made since is live
C30_Witness ==
    /\ lock = 0
    /\ wasReset /\ held.by = "reset" /\ held.val.total_requests = 2
    /\ Live.total_requests = 1 /\ Live.total_tokens_processed = 3
    /\ Completed = 3

-----------------------------------------------------------------------------
(* Snapshots of the collector are whole *)

\* the totals after a calls of record_inference(1, 1) and b calls of
\* record_inference(3, 5), the two calls the writers make
AfterCalls(a, b) == Totals(a + 3 * b, a + b, a + 5 * b)

\* C31: every snapshot is torn-free: the triple of counters of a snapshot
\* get_snapshot() returned while writers run is the totals after some set of
\* completed record_inference calls, never one with a counter of a call
\* applied and another not.
C31_SnapshotTornFree ==
    held.by = "get_snapshot" =>
       \E a, b \in 0 .. AllRecords : TotalsOf(held.val) = AfterCalls(a, b)

\* a snapshot of one call of each kind, held while a writer is between its
\* store of the tokens and its store of the latency
C31_Witness ==
    /\ held.by = "get_snapshot"
    /\ TotalsOf(held.val) = AfterCalls(1, 1)
    /\ \E t \in Threads : pc[t] \in {"rc_ld_req", "rc_st_req", "rc_ld_lat",
                                    "rc_st_lat"}

-----------------------------------------------------------------------------
(* The background loops outlive the exceptions of their iterations *)

LoopTasks == <<report_loop, heartbeat_task, reward_task>>

LoopFlags == <<reporter_running, srv_running, srv_running>>

\* C32: an exception raised inside an iteration of the report loop, the
\* heartbeat loop or the reward-check loop is caught at the loop's boundary
\* and does not end the loop: a loop ends only by cancellation or because
\* its running flag was cleared, and after an iteration that raised, with
\* the flag set, the loop is at its sleep for the next iteration.
C32_LoopsSurviveExceptions ==
    \A i \in 1 .. 3 :
        LET t == LoopTasks[i] IN
        /\ t.st = "done" => t.endedBy \in {"cancel", "not_running"}
        /\ (t.raised /\ LoopFlags[i] /\ ~t.cancel) => t.st \in {"sleep", "send", "executor"}

\* each loop has had an iteration end in an exception and is alive: the
\* heartbeat loop already in its next iteration
C32_Witness ==
    /\ report_loop.raised /\ report_loop.st = "sleep"
    /\ reward_task.raised /\ reward_task.st = "sleep"
    /\ heartbeat_task.raised /\ heartbeat_task.st = "executor"
    /\ srv_running /\ reporter_running

-----------------------------------------------------------------------------
(* Registration from two threads *)

\* C33: registration is attempted at most once also under concurrency: when
\* register() is called from two threads at overlapping times with valid
\* inputs, the node receives at most one registration transaction.
C33_OneRegistrationTx == reg_accepted <= 1

-----------------------------------------------------------------------------
(* claim_if_ready() *)

ClaimIfReadyCalls ==
    {i \in 1 .. Len(rewardCalls) : rewardCalls[i].op = "claim_if_ready"}

\* the pending reward a call read: the contract's answer, 0 when there is no
\* contract or the read failed
PendingRead(call) == IF pool /\ call.out = "ok" THEN call.value ELSE 0

TransactionSteps == {"nonce", "gas", "build", "sign", "send", "wait"}

\* C34: claim_if_ready() works on a claim transaction only when the pending
\* reward it read is at least the threshold, never when the reward contract
\* is unconfigured, for every threshold including 0; in every other case it
\* returns None, and a hash is returned only for a transaction sent.
C34_ClaimOnlyWhenReady ==
    \A i \in ClaimIfReadyCalls :
        LET call == rewardCalls[i] IN
        /\ call.steps \cap TransactionSteps # {}
              => pool /\ PendingRead(call) >= claim_threshold_wei
        /\ ~pool \/ PendingRead(call) < claim_threshold_wei
              => call.ret = NoneRet
        /\ call.ret # NoneRet => call.ret = HashRet /\ "send" \in call.steps
        /\ "wait" \notin call.steps

\* with a contract configured, one call read less than the threshold and
\* returned None, and a later one read enough and sent the claim
C34_Witness ==
    /\ pool /\ claim_threshold_wei > 0
    /\ \E i, j \in ClaimIfReadyCalls :
          /\ i < j
          /\ PendingRead(rewardCalls[i]) < claim_threshold_wei
          /\ rewardCalls[i].ret = NoneRet
          /\ PendingRead(rewardCalls[j]) >= claim_threshold_wei
          /\ rewardCalls[j].ret = HashRet

\* no contract configured and threshold 0: should_claim() is true and no
\* transaction is made
UnconfiguredAtZero ==
    /\ ~pool /\ claim_threshold_wei = 0
    /\ \E i \in ClaimIfReadyCalls :
          rewardCalls[i].ret = NoneRet /\ rewardCalls[i].steps = {}

-----------------------------------------------------------------------------
(* Proofs and counters in the reports *)

\* the requests whose proof report i carries
Carried(i) == {reports[i].proofs[k] : k \in 1 .. Len(reports[i].proofs)}

InBuffer == {buffered[k] : k \in 1 .. Len(buffered)}

\* C35: no buffered proof is lost by reporting: every proof that was
\* buffered is still in the buffer, or in a report being sent, or in a
\* report the oracle accepted; a proof drained for a report whose send
\* failed or raised is still there for a later report.
C35_NoProofLost ==
    \A p \in generated :
        \/ p \in InBuffer
        \/ \E i \in 1 .. Len(reports) :
              p \in Carried(i) /\ reports[i].res \in {"pending", "success"}

\* C36: each proof a report carries belongs to a request counted in that
\* report's tasks_completed, and the proofs reported so far are no more
\* than the report's tasks_completed.
C36_ProofsWithinTasks ==
    \A i \in 1 .. Len(reports) :
        /\ \A p \in Carried(i) : p <= reports[i].tasks
        /\ Cardinality(UNION {Carried(j) : j \in 1 .. i}) <= reports[i].tasks

\* C39: reporting never resets the collector: after any number of reports
\* the counters are the sum of the record_inference calls, and the
\* processed_tokens and tasks_completed of successive reports never
\* decrease.
C39_ReportingKeepsCounters ==
    /\ counted = recorded
    /\ \A i, j \in 1 .. Len(reports) :
          i < j => /\ reports[i].tokens <= reports[j].tokens
                   /\ reports[i].tasks <= reports[j].tasks

\* a report cycle and the final report have been sent, with requests
\* recorded before the first and between the two
C39_Witness ==
    /\ Len(reports) = 2
    /\ reports[1].who = "loop" /\ reports[2].who = "final"
    /\ 0 < reports[1].tasks /\ reports[1].tasks < reports[2].tasks
    /\ \A i \in 1 .. 2 : reports[i].res # "pending"

-----------------------------------------------------------------------------
(* start() and stop() interleaved *)

\* the report loops that are alive and have not been cancelled
UncancelledLoops == {k \in TaskIds : Alive(k) /\ ~tasks[k].cancel}

\* C37: under any interleaving of start() and stop() of one reporter, a
\* start() during the await of a stop() included, at most one report loop
\* is running, _running is true only while _task names that live loop, and
\* no loop is running without _task naming it for stop() to cancel.
C37_OneReferencedLoop ==
    /\ Cardinality(UncancelledLoops) <= 1
    /\ rep_running => rep_task \in UncancelledLoops
    /\ \A k \in UncancelledLoops : rep_task = k

-----------------------------------------------------------------------------
(* register() after a validation error *)

\* C38: a register() call that raises the capability validation error
\* leaves the registration state unchanged (no attempt recorded, no
\* registration transaction, is_registered as it was), and the next
\* register() call that returns after it makes the one registration attempt.
C38_RaiseLeavesState ==
    [][/\ (agentCalls' # agentCalls /\ lastCall'.op = "register"
              /\ lastCall'.raised)
          => UNCHANGED <<registered, registration_attempted, regSends,
                         regReturns>>
       /\ (lastCall.raised /\ regReturns' # regReturns)
          => /\ ~registration_attempted /\ registration_attempted'
             /\ "nonce" \in lastCall'.steps
             /\ regSends' <= 1]_vars

\* register() raised on a bad capability list, and a later call with valid
\* capabilities made the attempt and sent the one transaction
C38_Witness ==
    /\ lastCall.op = "register" /\ lastCall.afterRaise /\ ~lastCall.raised
    /\ lastCall.steps # {}
    /\ registration_attempted /\ regSends = 1

=============================================================================
